---- MODULE Spec2Model ----
(***************************************************************************)
(* Model of the SillyTavern Preset Cache Analyzer: the five rule analyzers *)
(* (macro placement, prompt ordering, token thresholds, injection depth,   *)
(* provider specific), the aggregator analyze and calculateScore.          *)
(*                                                                         *)
(* JavaScript values are tagged records:                                   *)
(*   [kind |-> "null"]                 null / undefined                    *)
(*   [kind |-> "absent"]               a field that is not there           *)
(*   [kind |-> "object"]               a plain object that is no array     *)
(*   [kind |-> "array", items |-> s]   an array                            *)
(* Text is a sequence of one-character strings, so that the regular        *)
(* expression is matched character by character as the engine does.        *)
(* A call returns [outcome |-> "ok", ...] or [outcome |-> "TypeError"].    *)
(*                                                                         *)
(* asked holds the texts the tokenizer was invoked with during the last    *)
(* call; cursor is the lastIndex of the global dynamic-macro matcher,      *)
(* which outlives each call; host is the extension inside SillyTavern:    *)
(* its settings, its event registration, its panel and its timers.        *)
(***************************************************************************)
EXTENDS Integers, Sequences, FiniteSets, TLC

VARIABLES preset, options, call, ret, scoreInput, scoreOutput, asked, cursor, host

vars == <<preset, options, call, ret, scoreInput, scoreOutput, asked, cursor, host>>

-----------------------------------------------------------------------------
(* Bounds of the model *)

\* longest prompt_order of the positional specification (SpecRules)
MaxOrder == 5

\* longest prompts / prompt_order array of the shape specification (SpecGuard)
MaxShapeLen == 2

\* longest prompt_order of the full-analysis specification (Spec)
MaxOrderFull == 3

\* longest finding list handed to calculateScore (SpecScore)
MaxFindings == 6

-----------------------------------------------------------------------------
(* Generic helpers *)

Null == [kind |-> "null"]

Absent == [kind |-> "absent"]

PlainObject == [kind |-> "object"]

Arr(s) == [kind |-> "array", items |-> s]

Throw == [outcome |-> "TypeError"]

Ok(v) == [outcome |-> "ok", value |-> v]

\* JavaScript truthiness of a tagged value (objects and arrays, even empty, are truthy)
Truthy(v) == v.kind \notin {"null", "absent"}

RECURSIVE SeqsUpTo(_, _)
\* all sequences over S of length at most n
SeqsUpTo(S, n) ==
    IF n = 0 THEN {<<>>}
    ELSE LET shorter == SeqsUpTo(S, n - 1)
         IN  shorter \cup {Append(s, x) : s \in {t \in shorter : Len(t) = n - 1}, x \in S}

RECURSIVE Flatten(_)
\* concatenation of a sequence of sequences (the spread into one findings array)
Flatten(ss) ==
    IF ss = <<>> THEN <<>> ELSE Head(ss) \o Flatten(Tail(ss))

RECURSIVE StrOf(_)
\* the string made of a sequence of characters
StrOf(cs) ==
    IF cs = <<>> THEN "" ELSE Head(cs) \o StrOf(Tail(cs))

-----------------------------------------------------------------------------
(* The dynamic-macro regular expression                                    *)
(* /\{\{(random|roll|time|date|weekday|isotime|isodate|idle_duration|      *)
(*       time_UTC)(::|\}\})/gi                                             *)

\* the alternatives of the capture group, in the order the engine tries them
MacroNames ==
    << <<"r","a","n","d","o","m">>,
       <<"r","o","l","l">>,
       <<"t","i","m","e">>,
       <<"d","a","t","e">>,
       <<"w","e","e","k","d","a","y">>,
       <<"i","s","o","t","i","m","e">>,
       <<"i","s","o","d","a","t","e">>,
       <<"i","d","l","e","_","d","u","r","a","t","i","o","n">>,
       <<"t","i","m","e","_","U","T","C">> >>

\* the alternatives of the closing group, in order
MacroSeps == << <<":", ":">>, <<"}", "}">> >>

MacroOpen == <<"{", "{">>

UpperCase ==
    [c \in {"a","b","c","d","e","f","g","h","i","j","k","l","m",
            "n","o","p","q","r","s","t","u","v","w","x","y","z"} |->
       CASE c = "a" -> "A" [] c = "b" -> "B" [] c = "c" -> "C" [] c = "d" -> "D"
         [] c = "e" -> "E" [] c = "f" -> "F" [] c = "g" -> "G" [] c = "h" -> "H"
         [] c = "i" -> "I" [] c = "j" -> "J" [] c = "k" -> "K" [] c = "l" -> "L"
         [] c = "m" -> "M" [] c = "n" -> "N" [] c = "o" -> "O" [] c = "p" -> "P"
         [] c = "q" -> "Q" [] c = "r" -> "R" [] c = "s" -> "S" [] c = "t" -> "T"
         [] c = "u" -> "U" [] c = "v" -> "V" [] c = "w" -> "W" [] c = "x" -> "X"
         [] c = "y" -> "Y" [] c = "z" -> "Z"]

\* table[c] when the table has an entry for c, else c itself
Mapped(table, c) == IF c \in DOMAIN table THEN table[c] ELSE c

\* the i flag: characters are compared after canonicalisation to upper case
Canonicalize(c) == Mapped(UpperCase, c)

\* a comparison without the i flag
LiteralAtExact(text, i, lit) ==
    /\ i + Len(lit) - 1 <= Len(text)
    /\ \A k \in 1..Len(lit) : text[i + k - 1] = lit[k]

\* the literal lit matches text at the 1-based position i
LiteralAt(text, i, lit) ==
    /\ i + Len(lit) - 1 <= Len(text)
    /\ \A k \in 1..Len(lit) : Canonicalize(text[i + k - 1]) = Canonicalize(lit[k])

\* alternative n of the name group, followed by one of the closing
\* alternatives, matches text from the 1-based position i on
NameAt(text, i, n) ==
    /\ LiteralAt(text, i, MacroNames[n])
    /\ \E s \in 1..Len(MacroSeps) : LiteralAt(text, i + Len(MacroNames[n]), MacroSeps[s])

\* the whole pattern matches text at the 1-based position i
PatternAt(text, i) ==
    /\ LiteralAt(text, i, MacroOpen)
    /\ \E n \in 1..Len(MacroNames) : NameAt(text, i + Len(MacroOpen), n)

\* the first alternative of the name group that leads to a match at i
FirstName(text, i) ==
    CHOOSE n \in 1..Len(MacroNames) :
        /\ NameAt(text, i + Len(MacroOpen), n)
        /\ \A m \in 1..(n - 1) : ~NameAt(text, i + Len(MacroOpen), m)

\* the match object for a match at the 1-based position i through name n
MatchRecord(text, i, n) ==
    [found     |-> TRUE,
     index     |-> i - 1,
     group1    |-> SubSeq(text, i + 2, i + 1 + Len(MacroNames[n])),
     lastIndex |-> (i - 1) + 2 + Len(MacroNames[n]) + 2]

\* the leftmost of the positions where the pattern matches, or no match
LeftmostMatch(text, starts) ==
    IF starts = {} THEN [found |-> FALSE, lastIndex |-> 0]
    ELSE MatchRecord(text,
                     CHOOSE j \in starts : \A k \in starts : j <= k,
                     FirstName(text, CHOOSE j \in starts : \A k \in starts : j <= k))

\* RegExp.prototype.exec of the global pattern with the cursor at lastIndex
\* (0-based): the leftmost match at or after the cursor; the cursor moves past
\* the match, or back to 0 when there is none (also when the cursor is beyond
\* the end of the text)
RegexExec(text, lastIndex) ==
    LeftmostMatch(text, {i \in (lastIndex + 1)..Len(text) : PatternAt(text, i)})

\* RegExp.prototype.test: exec, reduced to whether it matched
RegexTest(text, lastIndex) == RegexExec(text, lastIndex).found

-----------------------------------------------------------------------------
(* Volatility classifier *)

VOLATILE_IDENTIFIERS == {"chatHistory", "dialogueExamples"}

\* isVolatile: the identifier set, else the pattern tested from cursor 0
\* (DYNAMIC_MACRO_REGEX.lastIndex = 0 before test)
isVolatile(identifier, content) ==
    IF identifier \in VOLATILE_IDENTIFIERS THEN TRUE
    ELSE IF content # <<>> /\ RegexTest(content, 0) THEN TRUE
    ELSE FALSE

\* hasDynamicMacros: the pattern alone, tested from cursor 0
hasDynamicMacros(content) ==
    IF content = <<>> THEN FALSE ELSE RegexTest(content, 0)

\* a classifier that leaves the cursor where the last match left it
KeepLastIndex(c) == c

\* DYNAMIC_MACRO_REGEX.lastIndex = 0
ResetLastIndex(c) == 0

\* DYNAMIC_MACRO_REGEX.test(content) with the cursor at c: whether it matched,
\* where it leaves the cursor, and the cursor it started from
TestAt(content, c) ==
    [value  |-> RegexExec(content, c).found,
     cursor |-> RegexExec(content, c).lastIndex,
     starts |-> <<c>>]

\* a call that never touches the matcher: the cursor stays
Untouched(value, c) == [value |-> value, cursor |-> c, starts |-> <<>>]

\* isVolatile called while the matcher's cursor is at c
isVolatileAt(identifier, content, c) ==
    IF identifier \in VOLATILE_IDENTIFIERS THEN Untouched(TRUE, c)
    ELSE IF content # <<>> THEN TestAt(content, ResetLastIndex(c))
    ELSE Untouched(FALSE, c)

\* hasDynamicMacros called while the matcher's cursor is at c
hasDynamicMacrosAt(content, c) ==
    IF content = <<>> THEN Untouched(FALSE, c)
    ELSE TestAt(content, ResetLastIndex(c))

-----------------------------------------------------------------------------
(* Preset normalizer: the code every analyzer repeats *)

\* a guard clause that leaves out the test of prompt_order
GuardFailsNoOrderCheck(p) ==
    \/ ~Truthy(p)
    \/ ~Truthy(p.prompts)

\* the guard clause: !preset || !preset.prompts || !preset.prompt_order
GuardFails(p) ==
    \/ ~Truthy(p)
    \/ ~Truthy(p.prompts)
    \/ ~Truthy(p.prompt_order)

\* if (Array.isArray(a) && a.length > 0 && a[0].order) a = a[0].order;
\* reading .order of a null first element throws
UnwrapOrder(orderArray) ==
    IF orderArray.kind = "array" /\ Len(orderArray.items) > 0
    THEN LET first == orderArray.items[1]
         IN  IF first.kind = "null" THEN Throw
             ELSE IF first.kind = "wrapper" /\ Truthy(first.order) THEN Ok(first.order)
             ELSE Ok(orderArray)
    ELSE Ok(orderArray)

\* entry => entry.enabled (an element without the field gives undefined)
EntryEnabled(entry) == entry.kind = "record" /\ entry.enabled

\* a filter that keeps every order record, enabled or not
FilterKeepsAll(orderArray) ==
    IF orderArray.kind # "array" THEN Throw
    ELSE IF \E k \in 1..Len(orderArray.items) : orderArray.items[k].kind = "null" THEN Throw
    ELSE Ok(orderArray.items)

\* orderArray.filter(entry => entry.enabled): only arrays have filter, and
\* reading .enabled of a null element throws
FilterEnabled(orderArray) ==
    IF orderArray.kind # "array" THEN Throw
    ELSE IF \E k \in 1..Len(orderArray.items) : orderArray.items[k].kind = "null" THEN Throw
    ELSE Ok(SelectSeq(orderArray.items, EntryEnabled))

\* the Effective Ordered Sequence: unwrap, then filter
EnabledEntries(p) ==
    LET u == UnwrapOrder(p.prompt_order)
    IN  IF u.outcome # "ok" THEN Throw ELSE FilterEnabled(u.value)

\* for (const prompt of preset.prompts) promptMap[prompt.identifier] = prompt;
\* a non-array object is not iterable, and reading .identifier of null throws
BuildPromptMap(prompts) ==
    IF prompts.kind # "array" THEN Throw
    ELSE IF \E k \in 1..Len(prompts.items) : prompts.items[k].kind = "null" THEN Throw
    ELSE Ok(prompts.items)

\* promptMap[identifier]: the last entry written under the key, or undefined
Lookup(promptMap, identifier) ==
    LET hits == {k \in 1..Len(promptMap) : promptMap[k].identifier = identifier}
    IN  IF hits = {} THEN Absent
        ELSE promptMap[CHOOSE k \in hits : \A j \in hits : j <= k]

\* prompt ? prompt.content : ''
ContentOf(prompt) == IF Truthy(prompt) THEN prompt.content ELSE <<>>

-----------------------------------------------------------------------------
(* Rule: macro-placement *)

\* a severity whose warning band includes the fraction 0.4 itself
MacroSeverityInclusive(entryIndex, totalEntries) ==
    IF entryIndex = 0 THEN "critical"
    ELSE IF 5 * entryIndex <= 2 * totalEntries THEN "warning"
    ELSE "info"

\* entryIndex === 0 -> critical; entryIndex / totalEntries < 0.4 -> warning;
\* else info.  The quotient of two small naturals is below the double 0.4
\* exactly when 5 * entryIndex < 2 * totalEntries.
MacroSeverity(entryIndex, totalEntries) ==
    IF entryIndex = 0 THEN "critical"
    ELSE IF 5 * entryIndex < 2 * totalEntries THEN "warning"
    ELSE "info"

\* an id that names the entry only, not the occurrence within it
MacroFindingIdByEntry(entryIndex, macroIndex) ==
    "macro-placement-" \o ToString(entryIndex)

\* `macro-placement-${entryIndex}-${macroIndex}`
MacroFindingId(entryIndex, macroIndex) ==
    "macro-placement-" \o ToString(entryIndex) \o "-" \o ToString(macroIndex)

MacroFinding(entry, entryIndex, totalEntries, macroIndex, match) ==
    [id            |-> MacroFindingId(entryIndex, macroIndex),
     rule          |-> "macro-placement",
     severity      |-> MacroSeverity(entryIndex, totalEntries),
     affectedEntry |-> entry.identifier,
     provider      |-> "all",
     meta          |-> [macroFound      |-> "{{" \o StrOf(match.group1) \o "}}",
                        position        |-> entryIndex,
                        totalEntries    |-> totalEntries,
                        positionPercent |-> <<entryIndex, totalEntries>>]]

\* a loop body that reports the first occurrence and leaves the loop
ScanStepFirstOnly(entry, content, entryIndex, totalEntries, macroIndex, match) ==
    IF ~match.found THEN <<>>
    ELSE <<MacroFinding(entry, entryIndex, totalEntries, macroIndex, match)>>

RECURSIVE ScanMacros(_, _, _, _, _, _)
\* the body of the while loop for what exec returned: push a finding,
\* macroIndex++, and exec again from the moved cursor; or leave the loop
ScanStep(entry, content, entryIndex, totalEntries, macroIndex, match) ==
    IF ~match.found THEN <<>>
    ELSE <<MacroFinding(entry, entryIndex, totalEntries, macroIndex, match)>>
         \o ScanMacros(entry, content, entryIndex, totalEntries,
                       match.lastIndex, macroIndex + 1)

\* while ((match = DYNAMIC_MACRO_REGEX.exec(prompt.content)) !== null) { ... }
ScanMacros(entry, content, entryIndex, totalEntries, lastIndex, macroIndex) ==
    ScanStep(entry, content, entryIndex, totalEntries, macroIndex,
             RegexExec(content, lastIndex))

\* if (!prompt || !prompt.content) continue; lastIndex = 0; macroIndex = 0; scan
MacroPromptFindings(entry, prompt, entryIndex, totalEntries) ==
    IF ~Truthy(prompt) \/ prompt.content = <<>> THEN <<>>
    ELSE ScanMacros(entry, prompt.content, entryIndex, totalEntries, 0, 0)

\* a pass that counts and numbers only the entries that have a prompt entry
MacroEntryFindingsCountingPresent(enabledEntries, promptMap, entryIndex) ==
    MacroPromptFindings(enabledEntries[entryIndex + 1],
                        Lookup(promptMap, enabledEntries[entryIndex + 1].identifier),
                        Cardinality({k \in 1..entryIndex :
                            Truthy(Lookup(promptMap, enabledEntries[k].identifier))}),
                        Cardinality({k \in 1..Len(enabledEntries) :
                            Truthy(Lookup(promptMap, enabledEntries[k].identifier))}))

\* one pass of the for loop over enabledEntries (entryIndex is 0-based)
MacroEntryFindings(enabledEntries, promptMap, entryIndex) ==
    MacroPromptFindings(enabledEntries[entryIndex + 1],
                        Lookup(promptMap, enabledEntries[entryIndex + 1].identifier),
                        entryIndex, Len(enabledEntries))

\* the for loop, once the prompt map is built
MacroPlacementLoop(enabledEntries, m) ==
    IF m.outcome # "ok" THEN Throw
    ELSE Ok(Flatten([i \in 1..Len(enabledEntries) |->
                        MacroEntryFindings(enabledEntries, m.value, i - 1)]))

\* after the guard: totalEntries === 0 returns before the prompt map is built
MacroPlacementOver(e, prompts) ==
    IF e.outcome # "ok" THEN Throw
    ELSE IF Len(e.value) = 0 THEN Ok(<<>>)
    ELSE MacroPlacementLoop(e.value, BuildPromptMap(prompts))

checkMacroPlacement(p) ==
    IF GuardFails(p) THEN Ok(<<>>)
    ELSE MacroPlacementOver(EnabledEntries(p), p.prompts)

-----------------------------------------------------------------------------
(* Rule: prompt-ordering *)

\* classified[i].volatile (i is 1-based here)
ClassifiedVolatile(enabledEntries, promptMap, i) ==
    isVolatile(enabledEntries[i].identifier,
               ContentOf(Lookup(promptMap, enabledEntries[i].identifier)))

\* an inner loop that stops at the next volatile entry
StableAfterUntilVolatile(enabledEntries, promptMap, i) ==
    SelectSeq([k \in 1..(Len(enabledEntries) - i) |-> i + k],
              LAMBDA j : \A q \in (i + 1)..j :
                            ~ClassifiedVolatile(enabledEntries, promptMap, q))

\* the inner loop: the positions j > i whose entry is not volatile, in order
StableAfter(enabledEntries, promptMap, i) ==
    SelectSeq([k \in 1..(Len(enabledEntries) - i) |-> i + k],
              LAMBDA j : ~ClassifiedVolatile(enabledEntries, promptMap, j))

\* `prompt-ordering-${i}`
OrderingFindingId(i) == "prompt-ordering-" \o ToString(i)

\* a loop body that reports already when one stable entry follows
OrderingFindingFromOne(enabledEntries, i, stableAfter) ==
    IF Len(stableAfter) < 1 THEN <<>>
    ELSE << [id            |-> OrderingFindingId(i),
             rule          |-> "prompt-ordering",
             severity      |-> "warning",
             affectedEntry |-> enabledEntries[i + 1].identifier,
             provider      |-> "all",
             meta          |-> [volatilePosition   |-> i,
                                stableEntriesAfter |-> Len(stableAfter),
                                stableIdentifiers  |->
                                    [k \in 1..Len(stableAfter) |->
                                        enabledEntries[stableAfter[k]].identifier]]] >>

\* if (stableAfter.length < 2) continue; findings.push({...})
OrderingFinding(enabledEntries, i, stableAfter) ==
    IF Len(stableAfter) < 2 THEN <<>>
    ELSE << [id            |-> OrderingFindingId(i),
             rule          |-> "prompt-ordering",
             severity      |-> "warning",
             affectedEntry |-> enabledEntries[i + 1].identifier,
             provider      |-> "all",
             meta          |-> [volatilePosition   |-> i,
                                stableEntriesAfter |-> Len(stableAfter),
                                stableIdentifiers  |->
                                    [k \in 1..Len(stableAfter) |->
                                        enabledEntries[stableAfter[k]].identifier]]] >>

\* one pass of the outer loop (i is 0-based, as in the code)
OrderingEntryFindings(enabledEntries, promptMap, i) ==
    IF ~ClassifiedVolatile(enabledEntries, promptMap, i + 1) THEN <<>>
    ELSE OrderingFinding(enabledEntries, i, StableAfter(enabledEntries, promptMap, i + 1))

\* the outer loop, once the prompt map is built
PromptOrderingLoop(enabledEntries, m) ==
    IF m.outcome # "ok" THEN Throw
    ELSE Ok(Flatten([i \in 1..Len(enabledEntries) |->
                        OrderingEntryFindings(enabledEntries, m.value, i - 1)]))

\* after the guard: enabledEntries.length === 0 returns before the map is built
PromptOrderingOver(e, prompts) ==
    IF e.outcome # "ok" THEN Throw
    ELSE IF Len(e.value) = 0 THEN Ok(<<>>)
    ELSE PromptOrderingLoop(e.value, BuildPromptMap(prompts))

checkPromptOrdering(p) ==
    IF GuardFails(p) THEN Ok(<<>>)
    ELSE PromptOrderingOver(EnabledEntries(p), p.prompts)

-----------------------------------------------------------------------------
(* Token estimator and stable prefix *)

\* options.provider when absent (undefined and '' are both falsy)
NoProvider == ""

\* options.tokenizer when absent
NoTokenizer == [kind |-> "absent"]

\* defaultTokenizer: Math.ceil(text.length / 4)
defaultTokenizer(textLength) == (textLength + 3) \div 4

\* (options.tokenizer || defaultTokenizer)(text); a caller's tokenizer is a
\* function of the text, here one that answers a fixed count
ApplyTokenizer(tokenizer, text) ==
    IF tokenizer.kind = "absent" THEN defaultTokenizer(Len(text))
    ELSE tokenizer.value

RECURSIVE JoinNewline(_)
\* stableContent.join('\n')
JoinNewline(parts) ==
    IF parts = <<>> THEN <<>>
    ELSE IF Len(parts) = 1 THEN Head(parts)
    ELSE Head(parts) \o <<"\n">> \o JoinNewline(Tail(parts))

\* a loop that tests only the content for a dynamic macro, and so keeps the
\* content of chatHistory and dialogueExamples
StableContentByMacroOnly(enabledEntries, promptMap) ==
    LET contents == [k \in 1..Len(enabledEntries) |->
                        ContentOf(Lookup(promptMap, enabledEntries[k].identifier))]
        keep     == SelectSeq([k \in 1..Len(enabledEntries) |-> k],
                        LAMBDA k : /\ ~hasDynamicMacros(contents[k])
                                   /\ contents[k] # <<>>)
    IN  [k \in 1..Len(keep) |-> contents[keep[k]]]

\* the loop collecting stableContent: the content of each enabled entry that
\* is not volatile and whose content is non-empty, in order
StableContent(enabledEntries, promptMap) ==
    LET contents == [k \in 1..Len(enabledEntries) |->
                        ContentOf(Lookup(promptMap, enabledEntries[k].identifier))]
        keep     == SelectSeq([k \in 1..Len(enabledEntries) |-> k],
                        LAMBDA k : /\ ~isVolatile(enabledEntries[k].identifier, contents[k])
                                   /\ contents[k] # <<>>)
    IN  [k \in 1..Len(keep) |-> contents[keep[k]]]

-----------------------------------------------------------------------------
(* Rule: token-thresholds *)

THRESHOLD_ANTHROPIC == 1024

THRESHOLD_OPENAI == 1024

THRESHOLD_GOOGLE == 4096

\* a number as a JavaScript value
Num(n) == [kind |-> "number", value |-> n]

\* the result of arithmetic on something that is no number
NaN == [kind |-> "NaN"]

\* THRESHOLDS is an object literal: besides its own three keys, a lookup finds
\* the members it inherits from Object.prototype
OBJECT_PROTOTYPE_KEYS ==
    {"constructor", "toString", "toLocaleString", "valueOf", "hasOwnProperty",
     "isPrototypeOf", "propertyIsEnumerable", "__proto__"}

\* the member of Object.prototype found under a key: a function, or (under
\* __proto__) the prototype object itself; truthy, and NaN as a number
InheritedMember(key) == [kind |-> "inherited", key |-> key]

\* THRESHOLDS[provider] || THRESHOLDS.anthropic
ThresholdOf(provider) ==
    CASE provider = "anthropic"              -> Num(THRESHOLD_ANTHROPIC)
      [] provider = "openai"                 -> Num(THRESHOLD_OPENAI)
      [] provider = "google"                 -> Num(THRESHOLD_GOOGLE)
      [] provider \in OBJECT_PROTOTYPE_KEYS  -> InheritedMember(provider)
      [] OTHER                               -> Num(THRESHOLD_ANTHROPIC)

\* a comparison that lets an estimate exactly at the threshold through
AtLeastStrict(estimatedTokens, threshold) ==
    threshold.kind = "number" /\ estimatedTokens > threshold.value

\* estimatedTokens >= threshold: false whenever threshold is NaN as a number
AtLeast(estimatedTokens, threshold) ==
    threshold.kind = "number" /\ estimatedTokens >= threshold.value

\* threshold - estimatedTokens
Deficit(threshold, estimatedTokens) ==
    IF threshold.kind = "number" THEN Num(threshold.value - estimatedTokens) ELSE NaN

\* estimatedTokens / threshold, kept as the pair of its terms
Ratio(estimatedTokens, threshold) ==
    IF threshold.kind = "number" THEN <<estimatedTokens, threshold.value>> ELSE <<>>

\* a severity of its own for a prefix more than 20% below the threshold
ThresholdSeverityNotice(estimatedTokens, threshold) ==
    IF threshold.kind = "number" /\ 10 * estimatedTokens >= 8 * threshold.value
    THEN "info"
    ELSE "notice"

\* ratio >= 0.9 -> warning, else info (both lower branches give info);
\* tokens / threshold >= 0.9 exactly when 10 * tokens >= 9 * threshold, and
\* never when the ratio is NaN
ThresholdSeverity(estimatedTokens, threshold) ==
    IF threshold.kind = "number" /\ 10 * estimatedTokens >= 9 * threshold.value
    THEN "warning" ELSE "info"

\* options.provider || 'anthropic'
ProviderOrDefault(provider) == IF provider = NoProvider THEN "anthropic" ELSE provider

\* const concatenated = stableContent.join('\n')
StablePrefixText(enabledEntries, promptMap) ==
    JoinNewline(StableContent(enabledEntries, promptMap))

\* tokenizer(concatenated): the estimate, and the text the tokenizer was given
Estimate(tokenizer, text) ==
    [outcome |-> "ok", value |-> ApplyTokenizer(tokenizer, text), text |-> text]

\* tokenizer(stableContent.join('\n')), once the prompt map is built
StableTokensOver(enabledEntries, m, tokenizer) ==
    IF m.outcome # "ok" THEN Throw
    ELSE Estimate(tokenizer, StablePrefixText(enabledEntries, m.value))

\* the stable-content estimate both token rules compute: no return on an
\* empty enabledEntries, the prompt map is built and the estimate is 0
StableTokens(e, prompts, tokenizer) ==
    IF e.outcome # "ok" THEN Throw
    ELSE StableTokensOver(e.value, BuildPromptMap(prompts), tokenizer)

\* if (estimatedTokens >= threshold) return findings; findings.push({...})
ThresholdFinding(provider, threshold, estimatedTokens) ==
    IF AtLeast(estimatedTokens, threshold) THEN <<>>
    ELSE << [id            |-> "token-thresholds-" \o provider,
             rule          |-> "token-thresholds",
             severity      |-> ThresholdSeverity(estimatedTokens, threshold),
             affectedEntry |-> "all",
             provider      |-> provider,
             meta          |-> [estimatedTokens |-> estimatedTokens,
                                threshold       |-> threshold,
                                deficit         |-> Deficit(threshold, estimatedTokens),
                                ratio           |-> Ratio(estimatedTokens, threshold)]] >>

TokenThresholdsOver(provider, t) ==
    IF t.outcome # "ok" THEN Throw
    ELSE Ok(ThresholdFinding(provider, ThresholdOf(provider), t.value))

checkTokenThresholds(p, opts) ==
    IF GuardFails(p) THEN Ok(<<>>)
    ELSE TokenThresholdsOver(ProviderOrDefault(opts.provider),
                             StableTokens(EnabledEntries(p), p.prompts, opts.tokenizer))

-----------------------------------------------------------------------------
(* Rule: injection-depth *)

\* injection_depth when null or undefined; a depth d is <<d>>
NoDepth == <<>>

InjectionSeverity(depth, isDynamic) ==
    IF depth <= 1 /\ isDynamic THEN "critical"
    ELSE IF depth <= 1 THEN "warning"
    ELSE IF isDynamic THEN "warning"
    ELSE "info"

\* the set of identifiers of the enabled order records
EnabledIdentifiers(enabledEntries) ==
    {enabledEntries[k].identifier : k \in 1..Len(enabledEntries)}

\* findings.push({...}) for a prompt injected at depth with isDynamic
InjectionFinding(prompt, depth, isDynamic) ==
    [id            |-> "injection-depth-" \o prompt.identifier,
     rule          |-> "injection-depth",
     severity      |-> InjectionSeverity(depth, isDynamic),
     affectedEntry |-> prompt.identifier,
     provider      |-> "all",
     meta          |-> [depth             |-> depth,
                        injectionPosition |-> prompt.injection_position,
                        hasDynamicContent |-> isDynamic]]

\* a pass that takes the dynamic flag from isVolatile, identifier included
InjectionPromptFindingsByVolatility(prompt, enabledIdentifiers) ==
    IF ~prompt.enabled THEN <<>>
    ELSE IF prompt.identifier \notin enabledIdentifiers THEN <<>>
    ELSE IF prompt.injection_position # 1 THEN <<>>
    ELSE IF prompt.injection_depth = NoDepth \/ prompt.injection_depth[1] >= 4 THEN <<>>
    ELSE <<InjectionFinding(prompt, prompt.injection_depth[1],
                            isVolatile(prompt.identifier, prompt.content))>>

\* a pass that does not look at the entry's own enabled
InjectionPromptFindingsAnyEnabled(prompt, enabledIdentifiers) ==
    IF prompt.identifier \notin enabledIdentifiers THEN <<>>
    ELSE IF prompt.injection_position # 1 THEN <<>>
    ELSE IF prompt.injection_depth = NoDepth \/ prompt.injection_depth[1] >= 4 THEN <<>>
    ELSE <<InjectionFinding(prompt, prompt.injection_depth[1],
                            hasDynamicMacros(prompt.content))>>

\* one pass of the loop over preset.prompts
InjectionPromptFindings(prompt, enabledIdentifiers) ==
    IF ~prompt.enabled THEN <<>>
    ELSE IF prompt.identifier \notin enabledIdentifiers THEN <<>>
    ELSE IF prompt.injection_position # 1 THEN <<>>
    ELSE IF prompt.injection_depth = NoDepth \/ prompt.injection_depth[1] >= 4 THEN <<>>
    ELSE <<InjectionFinding(prompt, prompt.injection_depth[1],
                            hasDynamicMacros(prompt.content))>>

\* the loop over preset.prompts: a non-array is not iterable, and reading
\* .enabled of a null element throws
InjectionDepthLoop(enabledIdentifiers, m) ==
    IF m.outcome # "ok" THEN Throw
    ELSE Ok(Flatten([k \in 1..Len(m.value) |->
                        InjectionPromptFindings(m.value[k], enabledIdentifiers)]))

InjectionDepthOver(e, prompts) ==
    IF e.outcome # "ok" THEN Throw
    ELSE InjectionDepthLoop(EnabledIdentifiers(e.value), BuildPromptMap(prompts))

checkInjectionDepth(p) ==
    IF GuardFails(p) THEN Ok(<<>>)
    ELSE InjectionDepthOver(EnabledEntries(p), p.prompts)

-----------------------------------------------------------------------------
(* Rule: provider-specific *)

\* getStablePrefixTokens(preset, tokenizer)
\* a pass that pushes the content of volatile entries too
PrefixEntryContentOfAny(entry, content) ==
    IF content # <<>> THEN <<content>> ELSE <<>>

\* if (!isVolatile(entry.identifier, content) && content) stableContent.push
PrefixEntryContent(entry, content) ==
    IF ~isVolatile(entry.identifier, content) /\ content # <<>> THEN <<content>>
    ELSE <<>>

\* the loop over enabledEntries of getStablePrefixTokens
PrefixStableContent(enabledEntries, promptMap) ==
    Flatten([k \in 1..Len(enabledEntries) |->
                PrefixEntryContent(enabledEntries[k],
                    ContentOf(Lookup(promptMap, enabledEntries[k].identifier)))])

\* tokenizer(stableContent.join('\n')), once the prompt map is built
PrefixTokensOver(enabledEntries, m, tokenizer) ==
    IF m.outcome # "ok" THEN Throw
    ELSE Estimate(tokenizer, JoinNewline(PrefixStableContent(enabledEntries, m.value)))

\* after the filter: the prompt map, the loop, the tokenizer
PrefixTokens(e, prompts, tokenizer) ==
    IF e.outcome # "ok" THEN Throw
    ELSE PrefixTokensOver(e.value, BuildPromptMap(prompts), tokenizer)

getStablePrefixTokens(p, tokenizer) ==
    PrefixTokens(EnabledEntries(p), p.prompts, tokenizer)

\* p => p.enabled && p.role === 'system' && enabledIdentifiers.has(p.identifier)
IsSystemPrompt(prompt, enabledIdentifiers) ==
    prompt.enabled /\ prompt.role = "system" /\ prompt.identifier \in enabledIdentifiers

\* a check that already reports a single system prompt
AnthropicFindingFromOne(systemPromptCount, squash) ==
    IF systemPromptCount < 1 THEN <<>>
    ELSE << [id            |-> "provider-specific-anthropic-squash-off",
             rule          |-> "provider-specific",
             severity      |-> IF squash = "true" THEN "info" ELSE "warning",
             affectedEntry |-> "all",
             provider      |-> "anthropic",
             meta          |-> [systemPromptCount |-> systemPromptCount,
                                squashEnabled     |-> squash = "true"]] >>

\* if (systemPrompts.length > 1) { squash on: info; squash off: warning }
AnthropicFinding(systemPromptCount, squash) ==
    IF systemPromptCount <= 1 THEN <<>>
    ELSE IF squash = "true"
    THEN << [id            |-> "provider-specific-anthropic-squash-on",
             rule          |-> "provider-specific",
             severity      |-> "info",
             affectedEntry |-> "all",
             provider      |-> "anthropic",
             meta          |-> [systemPromptCount |-> systemPromptCount,
                                squashEnabled     |-> TRUE]] >>
    ELSE << [id            |-> "provider-specific-anthropic-squash-off",
             rule          |-> "provider-specific",
             severity      |-> "warning",
             affectedEntry |-> "all",
             provider      |-> "anthropic",
             meta          |-> [systemPromptCount |-> systemPromptCount,
                                squashEnabled     |-> FALSE]] >>

\* preset.prompts.filter(...): only arrays have filter, null elements throw
AnthropicFilter(enabledIdentifiers, m, squash) ==
    IF m.outcome # "ok" THEN Throw
    ELSE Ok(AnthropicFinding(
                Len(SelectSeq(m.value, LAMBDA q : IsSystemPrompt(q, enabledIdentifiers))),
                squash))

AnthropicOver(e, prompts, squash) ==
    IF e.outcome # "ok" THEN Throw
    ELSE AnthropicFilter(EnabledIdentifiers(e.value), BuildPromptMap(prompts), squash)

checkAnthropic(p, opts) ==
    AnthropicOver(EnabledEntries(p), p.prompts, p.squash_system_messages)

OPENAI_BOUNDARY == 128

\* a check that reports the remainder as the padding
OpenAIFindingPadsRemainder(estimatedTokens, remainder) ==
    IF remainder = 0 THEN <<>>
    ELSE << [id            |-> "provider-specific-openai-alignment",
             rule          |-> "provider-specific",
             severity      |-> "info",
             affectedEntry |-> "all",
             provider      |-> "openai",
             meta          |-> [estimatedTokens |-> estimatedTokens,
                                remainder       |-> remainder,
                                paddingNeeded   |-> remainder]] >>

\* const remainder = estimatedTokens % 128; if (remainder !== 0) push
OpenAIFinding(estimatedTokens, remainder) ==
    IF remainder = 0 THEN <<>>
    ELSE << [id            |-> "provider-specific-openai-alignment",
             rule          |-> "provider-specific",
             severity      |-> "info",
             affectedEntry |-> "all",
             provider      |-> "openai",
             meta          |-> [estimatedTokens |-> estimatedTokens,
                                remainder       |-> remainder,
                                paddingNeeded   |-> OPENAI_BOUNDARY - remainder]] >>

OpenAIOver(t) ==
    IF t.outcome # "ok" THEN Throw
    ELSE Ok(OpenAIFinding(t.value, t.value % OPENAI_BOUNDARY))

checkOpenAI(p, opts) == OpenAIOver(getStablePrefixTokens(p, opts.tokenizer))

GOOGLE_THRESHOLD == 4096

\* a check that still reports an estimate exactly at the threshold
GoogleFindingInclusive(estimatedTokens) ==
    IF estimatedTokens > GOOGLE_THRESHOLD THEN <<>>
    ELSE << [id            |-> "provider-specific-google-threshold",
             rule          |-> "provider-specific",
             severity      |-> "warning",
             affectedEntry |-> "all",
             provider      |-> "google",
             meta          |-> [estimatedTokens |-> estimatedTokens,
                                threshold       |-> GOOGLE_THRESHOLD,
                                deficit         |-> GOOGLE_THRESHOLD - estimatedTokens]] >>

\* if (estimatedTokens < threshold) push
GoogleFinding(estimatedTokens) ==
    IF estimatedTokens >= GOOGLE_THRESHOLD THEN <<>>
    ELSE << [id            |-> "provider-specific-google-threshold",
             rule          |-> "provider-specific",
             severity      |-> "warning",
             affectedEntry |-> "all",
             provider      |-> "google",
             meta          |-> [estimatedTokens |-> estimatedTokens,
                                threshold       |-> GOOGLE_THRESHOLD,
                                deficit         |-> GOOGLE_THRESHOLD - estimatedTokens]] >>

GoogleOver(t) ==
    IF t.outcome # "ok" THEN Throw
    ELSE Ok(GoogleFinding(t.value))

checkGoogle(p, opts) == GoogleOver(getStablePrefixTokens(p, opts.tokenizer))

checkProviderSpecific(p, opts) ==
    IF GuardFails(p) THEN Ok(<<>>)
    ELSE IF opts.provider = NoProvider THEN Ok(<<>>)
    ELSE IF opts.provider = "anthropic" THEN checkAnthropic(p, opts)
    ELSE IF opts.provider = "openai" THEN checkOpenAI(p, opts)
    ELSE IF opts.provider = "google" THEN checkGoogle(p, opts)
    ELSE Ok(<<>>)

-----------------------------------------------------------------------------
(* Aggregator *)

Max(a, b) == IF a >= b THEN a ELSE b

Min(a, b) == IF a <= b THEN a ELSE b

\* one pass of the loop of calculateScore: the switch on finding.severity
ScoreStep(score, finding) ==
    CASE finding.severity = "critical" -> score - 20
      [] finding.severity = "warning"  -> score - 10
      [] finding.severity = "info"     -> score - 3
      [] OTHER                         -> score

RECURSIVE ScoreLoop(_, _)
\* for (const finding of findings) { switch ... }
ScoreLoop(findings, score) ==
    IF findings = <<>> THEN score
    ELSE ScoreLoop(Tail(findings), ScoreStep(score, Head(findings)))

\* a calculateScore that forgets the lower clamp
calculateScoreNoFloor(findings) == Min(100, ScoreLoop(findings, 100))

RECURSIVE ScoreLoopInfoAdds(_, _)
\* a loop that adds 3 for an info finding instead of subtracting it
ScoreLoopInfoAdds(findings, score) ==
    IF findings = <<>> THEN score
    ELSE ScoreLoopInfoAdds(Tail(findings),
             IF Head(findings).severity = "info" THEN score + 3
             ELSE ScoreStep(score, Head(findings)))

\* a calculateScore over that loop
calculateScoreInfoAdds(findings) == Max(0, Min(100, ScoreLoopInfoAdds(findings, 100)))

\* let score = 100; loop; return Math.max(0, Math.min(100, score))
calculateScore(findings) == Max(0, Min(100, ScoreLoop(findings, 100)))

\* findings.filter(f => f.severity === sev).length
CountSeverity(findings, sev) ==
    Len(SelectSeq(findings, LAMBDA f : f.severity = sev))

\* { findings, score: calculateScore(findings), summary: {...} }
AnalysisResult(findings) ==
    [outcome  |-> "ok",
     findings |-> findings,
     score    |-> calculateScore(findings),
     summary  |-> [critical |-> CountSeverity(findings, "critical"),
                   warning  |-> CountSeverity(findings, "warning"),
                   info     |-> CountSeverity(findings, "info")]]

\* the spread of the five finding lists into one; an error in any analyzer
\* leaves analyze without a result
Collect(parts) ==
    IF \E k \in 1..Len(parts) : parts[k].outcome # "ok" THEN Throw
    ELSE AnalysisResult(Flatten([k \in 1..Len(parts) |-> parts[k].value]))

\* analyze: the five analyzers in their fixed order
analyze(p, opts) ==
    Collect(<< checkMacroPlacement(p),
               checkPromptOrdering(p),
               checkTokenThresholds(p, opts),
               checkInjectionDepth(p),
               checkProviderSpecific(p, opts) >>)

\* the texts the tokenizer was invoked with, in order, during one call of
\* checkTokenThresholds: none when the guard returns or an error ends the call
\* before line 69, else the one stable prefix
TextsOf(t) == IF t.outcome = "ok" THEN <<t.text>> ELSE <<>>

ThresholdsAsked(p, opts) ==
    IF GuardFails(p) THEN <<>>
    ELSE TextsOf(StableTokens(EnabledEntries(p), p.prompts, opts.tokenizer))

\* the same for checkProviderSpecific: only checkOpenAI and checkGoogle call
\* getStablePrefixTokens
ProviderAsked(p, opts) ==
    IF GuardFails(p) THEN <<>>
    ELSE IF opts.provider \in {"openai", "google"}
    THEN TextsOf(getStablePrefixTokens(p, opts.tokenizer))
    ELSE <<>>

\* the same for analyze: checkTokenThresholds is the first analyzer to call the
\* tokenizer, and the errors that end analyze all arise before that call
AnalyzeAsked(p, opts) ==
    IF checkTokenThresholds(p, opts).outcome # "ok" THEN <<>>
    ELSE ThresholdsAsked(p, opts) \o ProviderAsked(p, opts)

\* what a caller of a single analyzer gets back: the finding list, or the error
Returned(r) ==
    IF r.outcome = "ok" THEN [outcome |-> "ok", findings |-> r.value]
    ELSE [outcome |-> "TypeError"]

-----------------------------------------------------------------------------
(* The inputs that stay fixed in a specification that does not use them *)

NoPreset == Null

NoOptions == [provider |-> NoProvider, tokenizer |-> NoTokenizer]

NoReturn == [outcome |-> "none"]

\* no slash command has answered
NoReply == [kind |-> "none"]

\* the extension before init(): module-level panelBody, analyzeBtn = null,
\* no handler registered, no timer pending, defaultSettings
NoHost ==
    [loaded      |-> FALSE,
     autoAnalyze |-> TRUE,
     provider    |-> "auto",
     source      |-> "claude",
     listening   |-> FALSE,
     panel       |-> "none",
     marker      |-> FALSE,
     shown       |-> NoReturn,
     timers      |-> 0,
     reply       |-> NoReply,
     last        |-> "none",
     ran         |-> 0,
     analyzed    |-> 0]

-----------------------------------------------------------------------------
(* SpecScore: calculateScore on a finding list that grows one finding at a  *)
(* time, the way findings accumulate before the score is taken             *)

\* the severity values a finding may carry: the three the rules emit and one
\* that none of them emits
Severities == {"critical", "warning", "info", "notice"}

\* s with x put in front of 1-based position pos
InsertAt(s, pos, x) == SubSeq(s, 1, pos - 1) \o <<x>> \o SubSeq(s, pos, Len(s))

InitScore ==
    /\ scoreInput = <<>>
    /\ scoreOutput = calculateScore(<<>>)
    /\ preset = NoPreset
    /\ options = NoOptions
    /\ call = "calculateScore"
    /\ ret = NoReturn
    /\ asked = <<>>
    /\ cursor = 0
    /\ host = NoHost

\* a finding of any severity is added at any position and the score is taken
AddFinding(sev, pos) ==
    /\ Len(scoreInput) < MaxFindings
    /\ scoreInput' = InsertAt(scoreInput, pos, [severity |-> sev])
    /\ scoreOutput' = calculateScore(scoreInput')
    /\ UNCHANGED <<preset, options, call, ret, asked, cursor, host>>

NextScore ==
    \E sev \in Severities, pos \in 1..(Len(scoreInput) + 1) : AddFinding(sev, pos)

SpecScore == InitScore /\ [][NextScore]_vars

\* the number of findings of one severity, counted over positions
NumberOf(findings, sev) ==
    Cardinality({k \in 1..Len(findings) : findings[k].severity = sev})

\* C4: for a list with c critical, w warning and i info findings calculateScore
\* returns max(0, min(100, 100 - 20c - 10w - 3i)), an integer in 0..100; the
\* empty list gives 100, one critical 80, one warning 90, one info 97, two
\* criticals with a warning and an info 47, five or more criticals 0
C4_ScoreFormula ==
    LET c == NumberOf(scoreInput, "critical")
        w == NumberOf(scoreInput, "warning")
        i == NumberOf(scoreInput, "info")
        expected == 100 - 20 * c - 10 * w - 3 * i
    IN  /\ scoreOutput = (IF expected < 0 THEN 0 ELSE IF expected > 100 THEN 100 ELSE expected)
        /\ scoreOutput \in 0..100
        /\ (scoreInput = <<>>) => scoreOutput = 100
        /\ (c = 1 /\ w = 0 /\ i = 0) => scoreOutput = 80
        /\ (c = 0 /\ w = 1 /\ i = 0) => scoreOutput = 90
        /\ (c = 0 /\ w = 0 /\ i = 1) => scoreOutput = 97
        /\ (c = 2 /\ w = 1 /\ i = 1) => scoreOutput = 47
        /\ (c >= 5) => scoreOutput = 0

\* C4 witness: five criticals and an info, where the raw sum is below zero
C4_Witness ==
    /\ NumberOf(scoreInput, "critical") = 5
    /\ NumberOf(scoreInput, "info") = 1
    /\ scoreOutput = 0

\* C5: adding a finding of any severity at any position never raises the score
C5_ScoreMonotone ==
    [][Len(scoreInput') = Len(scoreInput) + 1 => scoreOutput' <= scoreOutput]_vars

\* C5 witness: findings of every severity have been added, one of them of a
\* severity the score ignores, and the score has come down
C5_Witness ==
    /\ Len(scoreInput) >= 4
    /\ \A sev \in Severities : NumberOf(scoreInput, sev) >= 1
    /\ scoreInput[1].severity = "notice"
    /\ scoreOutput = 67

-----------------------------------------------------------------------------
(* Texts and values the specifications draw their presets from *)

\* "Hi"
TextPlain == <<"H", "i">>

\* "{{random}}"
TextRandom == <<"{","{","r","a","n","d","o","m","}","}">>

\* "{{roll::{{date}}": two dynamic macros, the first closed by "::"
TextRollDate == <<"{","{","r","o","l","l",":",":","{","{","d","a","t","e","}","}">>

\* "{{TIME}}": a dynamic macro in upper case
TextUpperTime == <<"{","{","T","I","M","E","}","}">>

\* "{{char}}": a deterministic macro
TextChar == <<"{","{","c","h","a","r","}","}">>

\* "{{timer}}": a dynamic name followed by neither "::" nor "}}"
TextTimer == <<"{","{","t","i","m","e","r","}","}">>

\* '' (also what an absent content is read as)
TextEmpty == <<>>

Prompt(identifier, content, enabled, role, position, depth) ==
    [kind               |-> "prompt",
     identifier         |-> identifier,
     content            |-> content,
     enabled            |-> enabled,
     role               |-> role,
     injection_position |-> position,
     injection_depth    |-> depth]

OrderRecord(identifier, enabled) ==
    [kind |-> "record", identifier |-> identifier, enabled |-> enabled]

\* { character_id: ..., order: o }
Wrapper(o) == [kind |-> "wrapper", order |-> o]

PresetObject(prompts, promptOrder, squash) ==
    [kind                   |-> "object",
     prompts                |-> prompts,
     prompt_order           |-> promptOrder,
     squash_system_messages |-> squash]

\* the providers a caller may name: none, the three known ones, an unknown one
Providers == {NoProvider, "anthropic", "openai", "google", "mistral"}

OptionValues == {[provider |-> pr, tokenizer |-> NoTokenizer] : pr \in Providers}

SquashValues == {"absent", "false", "true"}

-----------------------------------------------------------------------------
(* The operations a caller may invoke on the preset snapshot it holds, one  *)
(* call at a time; each leaves the preset as it is and records what it     *)
(* returned                                                                *)

CallCheckMacroPlacement(opts) ==
    /\ call = "none"
    /\ call' = "checkMacroPlacement"
    /\ options' = opts
    /\ ret' = Returned(checkMacroPlacement(preset))
    /\ asked' = <<>>
    /\ UNCHANGED <<preset, scoreInput, scoreOutput, cursor, host>>

CallCheckPromptOrdering(opts) ==
    /\ call = "none"
    /\ call' = "checkPromptOrdering"
    /\ options' = opts
    /\ ret' = Returned(checkPromptOrdering(preset))
    /\ asked' = <<>>
    /\ UNCHANGED <<preset, scoreInput, scoreOutput, cursor, host>>

CallCheckTokenThresholds(opts) ==
    /\ call = "none"
    /\ call' = "checkTokenThresholds"
    /\ options' = opts
    /\ ret' = Returned(checkTokenThresholds(preset, opts))
    /\ asked' = ThresholdsAsked(preset, opts)
    /\ UNCHANGED <<preset, scoreInput, scoreOutput, cursor, host>>

CallCheckInjectionDepth(opts) ==
    /\ call = "none"
    /\ call' = "checkInjectionDepth"
    /\ options' = opts
    /\ ret' = Returned(checkInjectionDepth(preset))
    /\ asked' = <<>>
    /\ UNCHANGED <<preset, scoreInput, scoreOutput, cursor, host>>

CallCheckProviderSpecific(opts) ==
    /\ call = "none"
    /\ call' = "checkProviderSpecific"
    /\ options' = opts
    /\ ret' = Returned(checkProviderSpecific(preset, opts))
    /\ asked' = ProviderAsked(preset, opts)
    /\ UNCHANGED <<preset, scoreInput, scoreOutput, cursor, host>>

CallAnalyze(opts) ==
    /\ call = "none"
    /\ call' = "analyze"
    /\ options' = opts
    /\ ret' = analyze(preset, opts)
    /\ asked' = AnalyzeAsked(preset, opts)
    /\ UNCHANGED <<preset, scoreInput, scoreOutput, cursor, host>>

\* the caller is done with what the call returned; the snapshot stays
Forget ==
    /\ call # "none"
    /\ call' = "none"
    /\ options' = NoOptions
    /\ ret' = NoReturn
    /\ asked' = <<>>
    /\ UNCHANGED <<preset, scoreInput, scoreOutput, cursor, host>>

\* what a caller of isVolatile or hasDynamicMacros gets back, with what it
\* passed, the cursor the matcher was at when the call began, and the cursors
\* the matcher was started from during the call
Classified(r, identifier, content, c) ==
    [outcome    |-> "ok",
     value      |-> r.value,
     starts     |-> r.starts,
     entered    |-> c,
     identifier |-> identifier,
     content    |-> content]

\* the cursor a call leaves behind
CursorAfter(r) == r.cursor

CallIsVolatile(identifier, content) ==
    /\ call = "none"
    /\ call' = "isVolatile"
    /\ ret' = Classified(isVolatileAt(identifier, content, cursor), identifier, content, cursor)
    /\ cursor' = CursorAfter(isVolatileAt(identifier, content, cursor))
    /\ UNCHANGED <<preset, options, scoreInput, scoreOutput, asked, host>>

CallHasDynamicMacros(content) ==
    /\ call = "none"
    /\ call' = "hasDynamicMacros"
    /\ ret' = Classified(hasDynamicMacrosAt(content, cursor), "", content, cursor)
    /\ cursor' = CursorAfter(hasDynamicMacrosAt(content, cursor))
    /\ UNCHANGED <<preset, options, scoreInput, scoreOutput, asked, host>>

AnalyzerCalls ==
    {"checkMacroPlacement", "checkPromptOrdering", "checkTokenThresholds",
     "checkInjectionDepth", "checkProviderSpecific"}

\* the state before any call, for a given preset
Fresh(p) ==
    /\ preset = p
    /\ options = NoOptions
    /\ call = "none"
    /\ ret = NoReturn
    /\ scoreInput = <<>>
    /\ scoreOutput = calculateScore(<<>>)
    /\ asked = <<>>
    /\ cursor = 0
    /\ host = NoHost

-----------------------------------------------------------------------------
(* SpecGuard: presets of every shape -- null, with a field missing, with a  *)
(* field that is no array, with null elements, flat or wrapped -- handed to *)
(* each analyzer and to analyze                                            *)

\* a prompt entry that every rule has something to say about
ShapePrompt == Prompt("main", TextRandom, TRUE, "system", 1, <<0>>)

ShapePromptItems == {Null, ShapePrompt}

ShapeOrderItems == {Null, OrderRecord("main", TRUE), OrderRecord("main", FALSE)}

ShapePromptsValues ==
    {Absent, PlainObject} \cup {Arr(s) : s \in SeqsUpTo(ShapePromptItems, MaxShapeLen)}

ShapeFlatOrders == {Arr(s) : s \in SeqsUpTo(ShapeOrderItems, MaxShapeLen)}

ShapeOrderValues ==
    {Absent, PlainObject}
        \cup ShapeFlatOrders
        \cup {Arr(<<Wrapper(o)>>) : o \in {Absent, PlainObject} \cup ShapeFlatOrders}

ShapePresets ==
    {Null} \cup {PresetObject(ps, po, sq) :
                    ps \in ShapePromptsValues, po \in ShapeOrderValues, sq \in SquashValues}

InitGuard == \E p \in ShapePresets : Fresh(p)

NextGuard ==
    \/ \E opts \in OptionValues :
          \/ CallCheckMacroPlacement(opts)
          \/ CallCheckPromptOrdering(opts)
          \/ CallCheckTokenThresholds(opts)
          \/ CallCheckInjectionDepth(opts)
          \/ CallCheckProviderSpecific(opts)
          \/ CallAnalyze(opts)
    \/ Forget

SpecGuard == InitGuard /\ [][NextGuard]_vars

\* a field that is absent or is an empty sequence
AbsentOrEmpty(v) == v.kind = "absent" \/ (v.kind = "array" /\ v.items = <<>>)

\* a field that, when present, is a sequence without null elements (for
\* prompt_order: flat, or one wrapper around such a sequence)
ProperArray(v) ==
    v.kind = "array" /\ \A k \in 1..Len(v.items) : v.items[k].kind # "null"

ProperField(v) ==
    \/ v.kind = "absent"
    \/ ProperArray(v)
       /\ \A k \in 1..Len(v.items) :
             v.items[k].kind = "wrapper" =>
                 (v.items[k].order.kind = "absent" \/ ProperArray(v.items[k].order))

\* the result analyze gives when there is nothing to report
CleanResult(r) ==
    /\ r.outcome = "ok"
    /\ r.findings = <<>>
    /\ r.score = 100

\* C1: for every preset whose prompts and/or prompt_order is absent or is an
\* empty sequence (the other field, when present, being a proper sequence),
\* and every options value, analyze returns findings = [] and score = 100
C1_EmptyOrAbsentIsClean ==
    (/\ call = "analyze"
     /\ preset.kind = "object"
     /\ ProperField(preset.prompts)
     /\ ProperField(preset.prompt_order)
     /\ AbsentOrEmpty(preset.prompts) \/ AbsentOrEmpty(preset.prompt_order))
        => CleanResult(ret)

\* the preset is null, or lacks prompts, or lacks prompt_order
LacksField(p) ==
    \/ p.kind = "null"
    \/ p.prompts.kind = "absent"
    \/ p.prompt_order.kind = "absent"

\* C2: when the preset is null, or lacks prompts, or lacks prompt_order, each
\* of the five analyzers returns an empty finding list without an error, for
\* every options value, and analyze returns findings = [], score = 100 and
\* summary = {critical 0, warning 0, info 0}
C2_MissingFieldIsEmpty ==
    LacksField(preset) =>
        /\ (call \in AnalyzerCalls) => (ret.outcome = "ok" /\ ret.findings = <<>>)
        /\ (call = "analyze") =>
              /\ CleanResult(ret)
              /\ ret.summary = [critical |-> 0, warning |-> 0, info |-> 0]

\* C2 witness: analyze has returned for a preset without prompts whose
\* prompt_order starts with a null element, under the google provider
C2_Witness ==
    /\ call = "analyze"
    /\ options.provider = "google"
    /\ preset.kind = "object"
    /\ preset.prompts.kind = "absent"
    /\ preset.prompt_order = Arr(<<Null>>)
    /\ ret.outcome = "ok"
    /\ ret.score = 100

\* prompts and prompt_order are both present and one of them is ill-shaped:
\* not a sequence, or a sequence holding a null element (as first element of
\* prompt_order or anywhere inside)
IllShapedArray(v) ==
    \/ v.kind = "object"
    \/ v.kind = "array" /\ \E k \in 1..Len(v.items) : v.items[k].kind = "null"

IllShapedOrder(v) ==
    \/ IllShapedArray(v)
    \/ /\ v.kind = "array"
       /\ Len(v.items) > 0
       /\ v.items[1].kind = "wrapper"
       /\ IllShapedArray(v.items[1].order)

Malformed(p) ==
    /\ p.kind = "object"
    /\ Truthy(p.prompts)
    /\ Truthy(p.prompt_order)
    /\ IllShapedArray(p.prompts) \/ IllShapedOrder(p.prompt_order)

\* C3: for every preset in which prompts and prompt_order are present but
\* ill-shaped, analyze ends with an (empty) Analysis Result, never an error
C3_MalformedNeverThrows ==
    (call = "analyze" /\ Malformed(preset)) =>
        (ret.outcome = "ok" /\ ret.findings = <<>>)

-----------------------------------------------------------------------------
(* SpecRules: the two positional rules, checkMacroPlacement and            *)
(* checkPromptOrdering, on presets whose prompt_order is any sequence of   *)
(* enabled and disabled order records over three prompt tables             *)

\* a prompt entry that only its identifier and content matter for
Entry(identifier, content) == Prompt(identifier, content, TRUE, "system", 0, NoDepth)

\* main holds two dynamic macros, chatHistory is empty, scenario is static
TableA ==
    << Entry("main", TextRollDate), Entry("chatHistory", TextEmpty),
       Entry("scenario", TextPlain) >>

\* no entry for chatHistory; scenario holds a dynamic macro in upper case
TableB == << Entry("main", TextPlain), Entry("scenario", TextUpperTime) >>

\* two entries for main, the later one with a deterministic macro only;
\* scenario has no content; chatHistory has static content
TableC ==
    << Entry("main", TextRandom), Entry("scenario", TextEmpty),
       Entry("chatHistory", TextPlain), Entry("main", TextChar) >>

RulesTables == {TableA, TableB, TableC}

RulesItems ==
    {OrderRecord("main", TRUE), OrderRecord("chatHistory", TRUE),
     OrderRecord("scenario", TRUE), OrderRecord("main", FALSE)}

\* prompt_order in the flat format and in the wrapped one
RulesOrders ==
    {Arr(o) : o \in SeqsUpTo(RulesItems, MaxOrder)}
        \cup {Arr(<<Wrapper(Arr(o))>>) : o \in SeqsUpTo(RulesItems, MaxOrder)}

RulesPresets ==
    {PresetObject(Arr(t), o, "absent") : t \in RulesTables, o \in RulesOrders}

InitRules == \E p \in RulesPresets : Fresh(p)

NextRules ==
    \/ CallCheckMacroPlacement(NoOptions)
    \/ CallCheckPromptOrdering(NoOptions)
    \/ Forget

SpecRules == InitRules /\ [][NextRules]_vars

\* the order records of a preset, read through the wrapper when there is one
OrderRecords(p) ==
    IF p.prompt_order.items # <<>> /\ p.prompt_order.items[1].kind = "wrapper"
    THEN p.prompt_order.items[1].order.items
    ELSE p.prompt_order.items

\* the number of order records with enabled = true
EnabledCount(order) == Cardinality({r \in 1..Len(order) : order[r].enabled})

\* the place in the order of the enabled record with pos enabled records before it
RecordAt(order, pos) ==
    CHOOSE r \in 1..Len(order) :
        /\ order[r].enabled
        /\ Cardinality({q \in 1..(r - 1) : order[q].enabled}) = pos

\* the content of the prompt entry an order record refers to: that of the
\* last prompt entry under its identifier, '' when there is none
ContentFor(p, record) ==
    LET same == {k \in 1..Len(p.prompts.items) :
                    p.prompts.items[k].identifier = record.identifier}
    IN  IF same = {} THEN <<>>
        ELSE p.prompts.items[CHOOSE k \in same : \A j \in same : j <= k].content

\* the places in a text where a dynamic macro starts
Occurrences(text) == {i \in 1..Len(text) : PatternAt(text, i)}

\* C7: the severity of a macro-placement finding is a function of its position
\* p among the N enabled order records: critical if p = 0, warning if p > 0
\* and 5 * p < 2 * N, info otherwise; at p = 2, N = 5 it is info, and from
\* fraction 0.4 on it is never critical
C7_SeverityByPosition ==
    (call = "checkMacroPlacement" /\ ret.outcome = "ok") =>
        \A k \in 1..Len(ret.findings) :
            LET pos == ret.findings[k].meta.position
                N   == EnabledCount(OrderRecords(preset))
            IN  /\ N > 0
                /\ ret.findings[k].severity =
                       (IF pos = 0 THEN "critical"
                        ELSE IF 5 * pos < 2 * N THEN "warning"
                        ELSE "info")
                /\ (pos = 2 /\ N = 5) => ret.findings[k].severity = "info"
                /\ (5 * pos >= 2 * N) => ret.findings[k].severity # "critical"

\* C7 witness: five enabled records, with a critical finding at position 0, a
\* warning at position 1 and an info at position 2
C7_Witness ==
    /\ call = "checkMacroPlacement"
    /\ ret.outcome = "ok"
    /\ EnabledCount(OrderRecords(preset)) = 5
    /\ \E a, b, c \in 1..Len(ret.findings) :
          /\ ret.findings[a].meta.position = 0 /\ ret.findings[a].severity = "critical"
          /\ ret.findings[b].meta.position = 1 /\ ret.findings[b].severity = "warning"
          /\ ret.findings[c].meta.position = 2 /\ ret.findings[c].severity = "info"

\* the j-th smallest member of a set of numbers (j from 1)
NthOf(S, j) == CHOOSE i \in S : Cardinality({x \in S : x < i}) = j - 1

\* the macro-placement findings reported for one position, in list order
FoundAt(findings, pos) == SelectSeq(findings, LAMBDA f : f.meta.position = pos)

\* f reports the macro that starts at place i of content: "{{", the name as
\* written there, "}}"
ReportsMacroAt(f, content, i) ==
    \E L \in 1..Len(content) :
        /\ f.meta.macroFound = "{{" \o StrOf(SubSeq(content, i + 2, i + 1 + L)) \o "}}"
        /\ SubSeq(content, i + 2 + L, i + 3 + L) \in {<<":", ":">>, <<"}", "}">>}

\* C8: checkMacroPlacement reports one finding per occurrence of a dynamic
\* macro in the content belonging to each enabled order record: k occurrences
\* at position p give k findings, ids macro-placement-p-0 .. macro-placement-
\* p-(k-1) in scan order; no occurrence gives none; every finding belongs to
\* an enabled record, so a disabled record gives none whatever its content
C8_OneFindingPerOccurrence ==
    (call = "checkMacroPlacement" /\ ret.outcome = "ok") =>
        LET order == OrderRecords(preset)
            N     == EnabledCount(order)
        IN  /\ \A k \in 1..Len(ret.findings) : ret.findings[k].meta.position \in 0..(N - 1)
            /\ \A pos \in 0..(N - 1) :
                  LET record  == order[RecordAt(order, pos)]
                      content == ContentFor(preset, record)
                      found   == FoundAt(ret.findings, pos)
                  IN  /\ Len(found) = Cardinality(Occurrences(content))
                      /\ \A j \in 1..Len(found) :
                            /\ found[j].id = "macro-placement-" \o ToString(pos)
                                                 \o "-" \o ToString(j - 1)
                            /\ found[j].affectedEntry = record.identifier
                            /\ ReportsMacroAt(found[j], content, NthOf(Occurrences(content), j))

\* C8 witness: a disabled record for main (two macros) comes first, then an
\* enabled one for main and one for scenario (no macro): two findings, both
\* for position 0, roll before date
C8_Witness ==
    /\ call = "checkMacroPlacement"
    /\ preset.prompts = Arr(TableA)
    /\ OrderRecords(preset) = << OrderRecord("main", FALSE), OrderRecord("main", TRUE),
                                 OrderRecord("scenario", TRUE) >>
    /\ ret.outcome = "ok"
    /\ Len(ret.findings) = 2
    /\ ret.findings[1].id = "macro-placement-0-0"
    /\ ret.findings[1].meta.macroFound = "{{roll}}"
    /\ ret.findings[2].id = "macro-placement-0-1"
    /\ ret.findings[2].meta.macroFound = "{{date}}"

\* the position a finding of either positional rule reports
PositionOf(f) ==
    IF f.rule = "macro-placement" THEN f.meta.position ELSE f.meta.volatilePosition

\* C9: every position a finding reports lies in [0, totalEntries), where
\* totalEntries is the number of order records with enabled = true, and it
\* counts the enabled records only: the finding is about the enabled record
\* that has that many enabled records before it
C9_PositionsInRange ==
    (call \in {"checkMacroPlacement", "checkPromptOrdering"} /\ ret.outcome = "ok") =>
        \A k \in 1..Len(ret.findings) :
            LET f     == ret.findings[k]
                order == OrderRecords(preset)
                N     == EnabledCount(order)
            IN  /\ 0 <= PositionOf(f)
                /\ PositionOf(f) < N
                /\ (f.rule = "macro-placement") => f.meta.totalEntries = N
                /\ order[RecordAt(order, PositionOf(f))].identifier = f.affectedEntry

\* C9 witness: findings of checkPromptOrdering about a record that has a disabled
\* record before it, so that its position is not its place in prompt_order
C9_Witness ==
    /\ call = "checkPromptOrdering"
    /\ ret.outcome = "ok"
    /\ \E k \in 1..Len(ret.findings) :
          LET order == OrderRecords(preset)
              pos   == ret.findings[k].meta.volatilePosition
          IN  /\ RecordAt(order, pos) > pos + 1
              /\ EnabledCount(order) < Len(order)

\* C10: for a volatile entry at position i of the effective ordered sequence
\* checkPromptOrdering reports nothing when fewer than 2 stable entries lie
\* after i, and one warning when 2 or more do, with affectedEntry the entry's
\* identifier, stableEntriesAfter their number and stableIdentifiers their
\* identifiers in order; a stable entry is never reported
C10_OrderingFindings ==
    (call = "checkPromptOrdering" /\ ret.outcome = "ok") =>
        LET order       == OrderRecords(preset)
            N           == EnabledCount(order)
            Rec(pos)    == order[RecordAt(order, pos)]
            Vol(pos)    == isVolatile(Rec(pos).identifier, ContentFor(preset, Rec(pos)))
            Stable(pos) == {j \in (pos + 1)..(N - 1) : ~Vol(j)}
        IN  /\ \A k \in 1..Len(ret.findings) :
                  ret.findings[k].meta.volatilePosition \in 0..(N - 1)
            /\ \A pos \in 0..(N - 1) :
                  LET found == SelectSeq(ret.findings,
                                         LAMBDA f : f.meta.volatilePosition = pos)
                  IN  IF Vol(pos) /\ Cardinality(Stable(pos)) >= 2
                      THEN /\ Len(found) = 1
                           /\ found[1].severity = "warning"
                           /\ found[1].affectedEntry = Rec(pos).identifier
                           /\ found[1].meta.stableEntriesAfter = Cardinality(Stable(pos))
                           /\ Len(found[1].meta.stableIdentifiers) = Cardinality(Stable(pos))
                           /\ \A j \in 1..Cardinality(Stable(pos)) :
                                 found[1].meta.stableIdentifiers[j]
                                     = Rec(NthOf(Stable(pos), j)).identifier
                      ELSE found = <<>>

\* C10 witness: main, chatHistory, main, scenario, chatHistory with main and
\* scenario stable: one warning, for the first chatHistory, naming main and
\* scenario; the trailing chatHistory has nothing after it
C10_Witness ==
    /\ call = "checkPromptOrdering"
    /\ preset.prompts = Arr(TableC)
    /\ OrderRecords(preset) = << OrderRecord("main", TRUE), OrderRecord("chatHistory", TRUE),
                                 OrderRecord("main", TRUE), OrderRecord("scenario", TRUE),
                                 OrderRecord("chatHistory", TRUE) >>
    /\ ret.outcome = "ok"
    /\ Len(ret.findings) = 1
    /\ ret.findings[1].affectedEntry = "chatHistory"
    /\ ret.findings[1].meta.volatilePosition = 1
    /\ ret.findings[1].meta.stableEntriesAfter = 2
    /\ ret.findings[1].meta.stableIdentifiers = <<"main", "scenario">>

-----------------------------------------------------------------------------
(* Spec: the whole analyzer -- every rule and analyze, under every         *)
(* provider, with the default tokenizer and with one the caller supplies   *)
(* -- on presets whose prompt entries carry role and injection settings    *)

\* a tokenizer supplied by the caller that answers n for every text
FixedTokenizer(n) == [kind |-> "function", value |-> n]

\* three entries with distinct identifiers: main is injected at depth 0 and
\* holds two dynamic macros, scenario is injected at depth 2 and is static
FullTableA ==
    << Prompt("main", TextRollDate, TRUE, "system", 1, <<0>>),
       Prompt("chatHistory", TextEmpty, TRUE, "user", 0, NoDepth),
       Prompt("scenario", TextPlain, TRUE, "system", 1, <<2>>) >>

\* distinct identifiers: nothing injected shallowly; scenario is dynamic in
\* upper case and injected at depth 4
FullTableB ==
    << Prompt("main", TextPlain, TRUE, "system", 0, NoDepth),
       Prompt("scenario", TextUpperTime, TRUE, "user", 1, <<4>>),
       Prompt("chatHistory", TextTimer, FALSE, "system", 1, <<1>>) >>

\* two entries share the identifier main, both injected shallowly
FullTableC ==
    << Prompt("main", TextRandom, TRUE, "system", 1, <<1>>),
       Prompt("main", TextChar, TRUE, "system", 1, <<3>>),
       Prompt("scenario", TextPlain, TRUE, "system", 0, NoDepth) >>

FullTables == {FullTableA, FullTableB, FullTableC}

FullOrders == {Arr(o) : o \in SeqsUpTo(RulesItems, MaxOrderFull)}

FullPresets ==
    {PresetObject(Arr(t), o, sq) :
        t \in FullTables, o \in FullOrders, sq \in {"absent", "true"}}

\* the default tokenizer, or one that answers 1000 (at least 0.9 of 1024)
FullOptions ==
    {[provider |-> pr, tokenizer |-> tk] :
        pr \in Providers, tk \in {NoTokenizer, FixedTokenizer(1000)}}

Init == \E p \in FullPresets : Fresh(p)

Next ==
    \/ \E opts \in FullOptions :
          \/ CallCheckMacroPlacement(opts)
          \/ CallCheckPromptOrdering(opts)
          \/ CallCheckTokenThresholds(opts)
          \/ CallCheckInjectionDepth(opts)
          \/ CallCheckProviderSpecific(opts)
          \/ CallAnalyze(opts)
    \/ Forget

Spec == Init /\ [][Next]_vars

\* C28: every analyze result is internally consistent: each finding carries
\* one of the severities critical, warning, info; summary.critical,
\* summary.warning and summary.info are the numbers of findings of that
\* severity and add up to the length of findings; and score is
\* max(0, 100 - 20 * summary.critical - 10 * summary.warning - 3 * summary.info)
C28_ResultConsistent ==
    (call = "analyze" /\ ret.outcome = "ok") =>
        /\ \A k \in 1..Len(ret.findings) :
              ret.findings[k].severity \in {"critical", "warning", "info"}
        /\ ret.summary.critical = NumberOf(ret.findings, "critical")
        /\ ret.summary.warning = NumberOf(ret.findings, "warning")
        /\ ret.summary.info = NumberOf(ret.findings, "info")
        /\ ret.summary.critical + ret.summary.warning + ret.summary.info
              = Len(ret.findings)
        /\ ret.score = Max(0, 100 - 20 * ret.summary.critical
                                  - 10 * ret.summary.warning
                                  - 3 * ret.summary.info)

\* an analysis with findings of all three severities, from at least three
\* of the rules
C28_Witness ==
    /\ call = "analyze"
    /\ ret.outcome = "ok"
    /\ ret.summary.critical > 0
    /\ ret.summary.warning > 0
    /\ ret.summary.info > 0
    /\ Cardinality({ret.findings[k].rule : k \in 1..Len(ret.findings)}) >= 3
    /\ ret.score = 100 - 20 * ret.summary.critical - 10 * ret.summary.warning
                       - 3 * ret.summary.info

\* the prompt entries have pairwise distinct identifiers
DistinctIdentifiers(prompts) ==
    \A a, b \in 1..Len(prompts.items) :
        a # b => prompts.items[a].identifier # prompts.items[b].identifier

\* C6: for every preset whose prompt entries have pairwise distinct identifiers
\* (prompt_order may repeat an identifier) and every options value, no two
\* findings in the list analyze returns, or any single analyzer returns,
\* have the same id
C6_UniqueIds ==
    (call # "none" /\ ret.outcome = "ok" /\ DistinctIdentifiers(preset.prompts)) =>
        \A a, b \in 1..Len(ret.findings) :
            a # b => ret.findings[a].id # ret.findings[b].id

\* C6 witness: analyze has returned findings of all five rules for a preset
\* with distinct prompt identifiers whose prompt_order names scenario twice
C6_Witness ==
    /\ call = "analyze"
    /\ ret.outcome = "ok"
    /\ DistinctIdentifiers(preset.prompts)
    /\ \E a, b \in 1..Len(preset.prompt_order.items) :
          /\ a # b
          /\ preset.prompt_order.items[a] = OrderRecord("scenario", TRUE)
          /\ preset.prompt_order.items[b] = OrderRecord("scenario", TRUE)
    /\ Cardinality({ret.findings[k].rule : k \in 1..Len(ret.findings)}) = 5
    /\ Len(ret.findings) >= 6

-----------------------------------------------------------------------------
(* SpecTokens: the two rules that read the token estimate,                 *)
(* checkTokenThresholds and checkProviderSpecific, under every provider    *)
(* and with tokenizers whose answers lie around each threshold             *)

\* how far around each threshold the tokenizers' answers range
TokenMargin == 1

\* the longest prompt_order
MaxOrderTokens == 2

Near(n) == {k \in (n - TokenMargin)..(n + TokenMargin) : k >= 0}

\* answers around 0, the 128-token boundary, 0.9 of each threshold, and
\* each threshold
TokenCounts ==
    Near(0) \cup Near(OPENAI_BOUNDARY) \cup Near(2 * OPENAI_BOUNDARY)
        \cup Near((9 * THRESHOLD_ANTHROPIC) \div 10) \cup Near(THRESHOLD_ANTHROPIC)
        \cup Near((9 * THRESHOLD_GOOGLE) \div 10) \cup Near(THRESHOLD_GOOGLE)

\* none, the three known providers, an unknown one, and one whose name is
\* also the name of a member of Object.prototype
TokensProviders == Providers \cup {"toString"}

TokensOptions ==
    {[provider |-> pr, tokenizer |-> tk] :
        pr \in TokensProviders,
        tk \in {NoTokenizer} \cup {FixedTokenizer(n) : n \in TokenCounts}}

\* main and scenario are stable with different contents, chatHistory is
\* volatile by its identifier alone
TokensTableA ==
    << Entry("main", TextPlain), Entry("scenario", TextChar),
       Entry("chatHistory", TextPlain) >>

\* main is volatile by its content; there is no entry for chatHistory
TokensTableB == << Entry("main", TextRandom), Entry("scenario", TextPlain) >>

TokensTables == {<<>>, TokensTableA, TokensTableB}

TokensOrders == {Arr(o) : o \in SeqsUpTo(RulesItems, MaxOrderTokens)}

TokensPresets ==
    {PresetObject(Arr(t), o, "absent") : t \in TokensTables, o \in TokensOrders}

InitTokens == \E p \in TokensPresets : Fresh(p)

NextTokens ==
    \/ \E opts \in TokensOptions :
          \/ CallCheckTokenThresholds(opts)
          \/ CallCheckProviderSpecific(opts)
    \/ Forget

SpecTokens == InitTokens /\ [][NextTokens]_vars

\* the least k with 4 * k >= n: ceil(n / 4)
CeilQuarter(n) == CHOOSE k \in 0..n : 4 * k >= n /\ (k = 0 \/ 4 * (k - 1) < n)

\* the estimate t of a call: what the caller's tokenizer answers, or a
\* quarter of the length of the text handed over, rounded up
EstimateOfCall ==
    IF options.tokenizer = NoTokenizer THEN CeilQuarter(Len(asked[1]))
    ELSE options.tokenizer.value

\* the threshold T of a known provider
KnownThreshold(provider) ==
    IF provider = "google" THEN 4096 ELSE 1024

\* C11: checkTokenThresholds under a known provider, with threshold T (1024
\* for anthropic and openai, 4096 for google) and estimate t: no finding when
\* t >= T, t = T included; otherwise exactly one finding, warning when
\* 10 * t >= 9 * T and info when not, whose meta holds estimatedTokens = t,
\* threshold = T and deficit = T - t > 0; t is the answer of the caller's
\* tokenizer when there is one, ceil(length / 4) when there is none
C11_ThresholdFinding ==
    (/\ call = "checkTokenThresholds"
     /\ ret.outcome = "ok"
     /\ Len(asked) = 1
     /\ options.provider \in {"anthropic", "openai", "google"}) =>
        LET T == KnownThreshold(options.provider)
            t == EstimateOfCall
        IN  IF t >= T THEN ret.findings = <<>>
            ELSE /\ Len(ret.findings) = 1
                 /\ ret.findings[1].severity =
                        (IF 10 * t >= 9 * T THEN "warning" ELSE "info")
                 /\ ret.findings[1].meta.estimatedTokens = t
                 /\ ret.findings[1].meta.threshold = Num(T)
                 /\ ret.findings[1].meta.deficit = Num(T - t)
                 /\ T - t > 0

\* C11 witness: under google a caller's tokenizer answers 3687, the first
\* estimate at 0.9 of 4096 or more: one warning with deficit 409
C11_Witness ==
    /\ call = "checkTokenThresholds"
    /\ ret.outcome = "ok"
    /\ Len(asked) = 1
    /\ options.provider = "google"
    /\ options.tokenizer = FixedTokenizer(3687)
    /\ Len(ret.findings) = 1
    /\ ret.findings[1].severity = "warning"
    /\ ret.findings[1].meta.deficit = Num(409)

\* C12: when options.provider is absent or a string other than anthropic,
\* openai and google, checkTokenThresholds still runs and uses the anthropic
\* threshold 1024 (no finding from 1024 tokens on, one finding with
\* meta.threshold = 1024 below), while checkProviderSpecific returns zero
\* findings and no error
C12_UnknownProvider ==
    (options.provider \notin {"anthropic", "openai", "google"}) =>
        /\ (call = "checkTokenThresholds" /\ Len(asked) = 1) =>
               /\ ret.outcome = "ok"
               /\ IF EstimateOfCall >= 1024 THEN ret.findings = <<>>
                  ELSE /\ Len(ret.findings) = 1
                       /\ ret.findings[1].meta.threshold = Num(1024)
                       /\ ret.findings[1].meta.deficit = Num(1024 - EstimateOfCall)
        /\ call = "checkProviderSpecific" =>
               /\ ret.outcome = "ok"
               /\ ret.findings = <<>>

\* C17: under provider openai, with stable-prefix estimate t,
\* checkProviderSpecific emits exactly one finding, of severity info, iff
\* t mod 128 is not 0, with meta.remainder = t mod 128 and meta.paddingNeeded
\* = 128 - (t mod 128), so that paddingNeeded lies in 1..127 and
\* t + paddingNeeded is a multiple of 128; when t is a multiple of 128, 0
\* included, it emits nothing
C17_OpenAIAlignment ==
    (/\ call = "checkProviderSpecific"
     /\ options.provider = "openai"
     /\ Len(asked) = 1) =>
        /\ ret.outcome = "ok"
        /\ IF EstimateOfCall % 128 = 0 THEN ret.findings = <<>>
           ELSE /\ Len(ret.findings) = 1
                /\ ret.findings[1].severity = "info"
                /\ ret.findings[1].meta.remainder = EstimateOfCall % 128
                /\ ret.findings[1].meta.paddingNeeded = 128 - (EstimateOfCall % 128)
                /\ ret.findings[1].meta.paddingNeeded \in 1..127
                /\ (EstimateOfCall + ret.findings[1].meta.paddingNeeded) % 128 = 0

\* C17 witness: the caller's tokenizer answers 129: remainder 1, padding 127
C17_Witness ==
    /\ call = "checkProviderSpecific"
    /\ options = [provider |-> "openai", tokenizer |-> FixedTokenizer(129)]
    /\ ret.outcome = "ok"
    /\ Len(ret.findings) = 1
    /\ ret.findings[1].meta.remainder = 1
    /\ ret.findings[1].meta.paddingNeeded = 127

\* C18: under provider google, with stable-prefix estimate t,
\* checkProviderSpecific emits exactly one finding, a warning with
\* meta.deficit = 4096 - t, iff t < 4096, and nothing when t >= 4096
C18_GoogleThreshold ==
    (/\ call = "checkProviderSpecific"
     /\ options.provider = "google"
     /\ Len(asked) = 1) =>
        /\ ret.outcome = "ok"
        /\ IF EstimateOfCall < 4096
           THEN /\ Len(ret.findings) = 1
                /\ ret.findings[1].severity = "warning"
                /\ ret.findings[1].meta.deficit = 4096 - EstimateOfCall
           ELSE ret.findings = <<>>

\* C18 witness: the caller's tokenizer answers 4095: one warning, deficit 1
C18_Witness ==
    /\ call = "checkProviderSpecific"
    /\ options = [provider |-> "google", tokenizer |-> FixedTokenizer(4095)]
    /\ ret.outcome = "ok"
    /\ Len(ret.findings) = 1
    /\ ret.findings[1].severity = "warning"
    /\ ret.findings[1].meta.deficit = 1

-----------------------------------------------------------------------------
(* SpecPrefix: checkTokenThresholds on presets whose prompt_order mixes    *)
(* stable, volatile, disabled and dangling order records, flat or wrapped: *)
(* what the tokenizer is handed                                            *)

\* the longest prompt_order
MaxOrderPrefix == 3

\* main appears twice and its later entry, static, is the one looked up;
\* dialogueExamples is static but volatile by its identifier; scenario has no
\* content; there is no entry for chatHistory
PrefixTableC ==
    << Entry("main", TextRandom), Entry("dialogueExamples", TextPlain),
       Entry("scenario", TextEmpty), Entry("main", TextTimer) >>

PrefixTables == {TokensTableA, TokensTableB, PrefixTableC}

PrefixItems == RulesItems \cup {OrderRecord("dialogueExamples", TRUE)}

PrefixOrders ==
    {Arr(o) : o \in SeqsUpTo(PrefixItems, MaxOrderPrefix)}
        \cup {Arr(<<Wrapper(Arr(o))>>) : o \in SeqsUpTo(PrefixItems, MaxOrderPrefix)}

\* presets the guard stops: null, without prompt_order, without prompts
PrefixStopped ==
    {Null,
     PresetObject(Arr(TokensTableA), Absent, "absent"),
     PresetObject(Absent, Arr(<<OrderRecord("main", TRUE)>>), "absent")}

PrefixPresets ==
    {PresetObject(Arr(t), o, "absent") : t \in PrefixTables, o \in PrefixOrders}
        \cup PrefixStopped

\* the default tokenizer, or one of the caller
PrefixOptions ==
    {[provider |-> NoProvider, tokenizer |-> tk] :
        tk \in {NoTokenizer, FixedTokenizer(THRESHOLD_ANTHROPIC)}}

InitPrefix == \E p \in PrefixPresets : Fresh(p)

NextPrefix ==
    \/ \E opts \in PrefixOptions : CallCheckTokenThresholds(opts)
    \/ Forget

SpecPrefix == InitPrefix /\ [][NextPrefix]_vars

\* the order records whose content belongs to the stable prefix: enabled,
\* not chatHistory or dialogueExamples, with a prompt entry whose content is
\* non-empty and holds no dynamic macro
InPrefix(p, record) ==
    /\ record.enabled
    /\ record.identifier \notin {"chatHistory", "dialogueExamples"}
    /\ ContentFor(p, record) # <<>>
    /\ Occurrences(ContentFor(p, record)) = {}

\* the contents of those records, in the order of the effective sequence
PrefixParts(p) ==
    LET kept == SelectSeq(OrderRecords(p), LAMBDA r : InPrefix(p, r))
    IN  [j \in 1..Len(kept) |-> ContentFor(p, kept[j])]

RECURSIVE LengthsBefore(_, _)
\* the place before which part j starts in the joined text: the lengths of
\* the parts before it, and one separator after each
LengthsBefore(parts, j) ==
    IF j <= 1 THEN 0 ELSE LengthsBefore(parts, j - 1) + Len(parts[j - 1]) + 1

\* text is parts joined by single newlines
IsJoinOf(text, parts) ==
    /\ Len(text) = (IF parts = <<>> THEN 0
                    ELSE LengthsBefore(parts, Len(parts)) + Len(parts[Len(parts)]))
    /\ \A j \in 1..Len(parts) :
          /\ \A i \in 1..Len(parts[j]) :
                text[LengthsBefore(parts, j) + i] = parts[j][i]
          /\ j > 1 => text[LengthsBefore(parts, j)] = "\n"

\* C13 as stated: every call of checkTokenThresholds invokes the tokenizer
\* exactly once, and hands it exactly the newline-joined contents, in the order
\* of the effective sequence, of the enabled order records whose prompt entry
\* has non-empty content and is not volatile
C13_OncePerCall ==
    call = "checkTokenThresholds" =>
        /\ Len(asked) = 1
        /\ IsJoinOf(asked[1], PrefixParts(preset))

\* C13: a call of checkTokenThresholds on a preset that holds prompts and
\* prompt_order invokes the tokenizer exactly once, and hands it exactly the
\* newline-joined contents, in the order of the effective sequence, of the
\* enabled order records whose prompt entry has non-empty content and is not
\* volatile; content of volatile entries, of disabled order records and of
\* missing prompt entries is no part of it. On a preset that is null or lacks
\* one of the two fields the tokenizer is not invoked at all
C13_StablePrefix ==
    call = "checkTokenThresholds" =>
        IF LacksField(preset) THEN asked = <<>>
        ELSE /\ Len(asked) = 1
             /\ IsJoinOf(asked[1], PrefixParts(preset))

\* C13 witness: scenario, chatHistory, main in the wrapped format over
\* TokensTableA: the tokenizer got "{{char}}\nHi", scenario's content before
\* main's and without the "Hi" of chatHistory
C13_Witness ==
    /\ call = "checkTokenThresholds"
    /\ asked = << TextChar \o <<"\n">> \o TextPlain >>
    /\ preset.prompts = Arr(TokensTableA)
    /\ preset.prompt_order =
           Arr(<<Wrapper(Arr(<< OrderRecord("scenario", TRUE), OrderRecord("chatHistory", TRUE),
                                OrderRecord("main", TRUE) >>))>>)

-----------------------------------------------------------------------------
(* SpecDepth: checkInjectionDepth on presets whose first prompt entry      *)
(* ranges over every combination of identifier, content, enabled,          *)
(* injection_position and injection_depth                                  *)

\* the deepest injection_depth
MaxDepth == 4

DepthValues == {NoDepth} \cup {<<d>> : d \in 0..MaxDepth}

\* 0 is the normal placement, 1 the injection into the chat
PositionValues == {0, 1}

DepthContents == {TextPlain, TextRandom, TextChar, TextEmpty}

DepthFirst ==
    {Prompt(id, c, en, "system", pos, d) :
        id \in {"main", "chatHistory"}, c \in DepthContents, en \in BOOLEAN,
        pos \in PositionValues, d \in DepthValues}

\* a static scenario at depth 2, or a second main, dynamic, at depth 3
DepthSecond ==
    {Prompt("scenario", TextPlain, TRUE, "system", 1, <<2>>),
     Prompt("main", TextUpperTime, TRUE, "system", 1, <<3>>)}

DepthTables == {<<a, b>> : a \in DepthFirst, b \in DepthSecond}

\* all three identifiers enabled; main disabled; wrapped, without scenario
DepthOrders ==
    {Arr(<< OrderRecord("main", TRUE), OrderRecord("chatHistory", TRUE),
            OrderRecord("scenario", TRUE) >>),
     Arr(<< OrderRecord("main", FALSE), OrderRecord("scenario", TRUE) >>),
     Arr(<<Wrapper(Arr(<< OrderRecord("chatHistory", TRUE), OrderRecord("main", TRUE) >>))>>)}

DepthPresets ==
    {PresetObject(Arr(t), o, "absent") : t \in DepthTables, o \in DepthOrders}

InitDepth == \E p \in DepthPresets : Fresh(p)

NextDepth ==
    \/ \E opts \in OptionValues : CallCheckInjectionDepth(opts)
    \/ Forget

SpecDepth == InitDepth /\ [][NextDepth]_vars

\* some order record with enabled = true names the identifier
InEnabledOrder(p, identifier) ==
    \E r \in 1..Len(OrderRecords(p)) :
        OrderRecords(p)[r].enabled /\ OrderRecords(p)[r].identifier = identifier

\* the four conditions on a prompt entry
Qualifies(p, q) ==
    /\ q.enabled
    /\ InEnabledOrder(p, q.identifier)
    /\ q.injection_position = 1
    /\ q.injection_depth # <<>>
    /\ q.injection_depth[1] < 4

\* the severity table
TableSeverity(d, dynamic) ==
    CASE d <= 1 /\ dynamic         -> "critical"
      [] d <= 1 /\ ~dynamic        -> "warning"
      [] d \in {2, 3} /\ dynamic   -> "warning"
      [] d \in {2, 3} /\ ~dynamic  -> "info"

\* C14: checkInjectionDepth emits exactly one finding for each qualifying
\* prompt entry (enabled, named by an enabled order record, injection_position
\* 1, a depth d < 4), in the order of the entries, whose severity is critical
\* if d <= 1 and the content holds a dynamic macro, warning if d <= 1 and it
\* does not, warning if d is 2 or 3 and it does, info if d is 2 or 3 and it does
\* not; the dynamic flag follows the content alone, whatever the identifier
C14_DepthSeverity ==
    (call = "checkInjectionDepth" /\ ret.outcome = "ok") =>
        LET qualifying == SelectSeq(preset.prompts.items, LAMBDA q : Qualifies(preset, q))
        IN  /\ Len(ret.findings) = Len(qualifying)
            /\ \A k \in 1..Len(qualifying) :
                  /\ ret.findings[k].affectedEntry = qualifying[k].identifier
                  /\ ret.findings[k].meta.hasDynamicContent
                        = (Occurrences(qualifying[k].content) # {})
                  /\ ret.findings[k].severity
                        = TableSeverity(qualifying[k].injection_depth[1],
                                        Occurrences(qualifying[k].content) # {})

\* C14 witness: chatHistory with macro-free content at depth 1 counts as
\* static (warning), next to a dynamic main at depth 3 (warning)
C14_Witness ==
    /\ call = "checkInjectionDepth"
    /\ ret.outcome = "ok"
    /\ Len(ret.findings) = 2
    /\ ret.findings[1].affectedEntry = "chatHistory"
    /\ ret.findings[1].meta.depth = 1
    /\ ret.findings[1].meta.hasDynamicContent = FALSE
    /\ ret.findings[1].severity = "warning"
    /\ ret.findings[2].affectedEntry = "main"
    /\ ret.findings[2].meta.depth = 3
    /\ ret.findings[2].severity = "warning"

\* the findings reported for an identifier
FindingsFor(findings, identifier) ==
    SelectSeq(findings, LAMBDA f : f.affectedEntry = identifier)

\* C15: checkInjectionDepth produces a finding for a prompt entry only if the
\* entry's own enabled is true, its identifier belongs to an enabled order
\* record, its injection_position is 1 and its injection_depth is neither null
\* nor undefined and below 4: every finding belongs to such an entry, with its
\* depth, and an identifier has no more findings than it has such entries, so
\* that an entry failing a condition produces none, whatever its content
C15_DepthOnlyIf ==
    (call = "checkInjectionDepth" /\ ret.outcome = "ok") =>
        /\ \A k \in 1..Len(ret.findings) :
              \E j \in 1..Len(preset.prompts.items) :
                  /\ preset.prompts.items[j].identifier = ret.findings[k].affectedEntry
                  /\ Qualifies(preset, preset.prompts.items[j])
                  /\ preset.prompts.items[j].injection_depth[1] = ret.findings[k].meta.depth
        /\ \A j \in 1..Len(preset.prompts.items) :
              Len(FindingsFor(ret.findings, preset.prompts.items[j].identifier))
                  <= Len(SelectSeq(preset.prompts.items,
                         LAMBDA q : /\ q.identifier = preset.prompts.items[j].identifier
                                    /\ Qualifies(preset, q)))

\* C15 witness: a dynamic main at depth 0 whose own enabled is false, in a
\* preset whose prompt_order enables main, is not reported; the second main is
C15_Witness ==
    /\ call = "checkInjectionDepth"
    /\ ret.outcome = "ok"
    /\ preset.prompts.items[1] = Prompt("main", TextRandom, FALSE, "system", 1, <<0>>)
    /\ InEnabledOrder(preset, "main")
    /\ Len(ret.findings) = 1
    /\ ret.findings[1].meta.depth = 3

-----------------------------------------------------------------------------
(* SpecSquash: checkProviderSpecific under the three known providers on    *)
(* presets whose prompt entries vary in enabled, role and identifier, with *)
(* squash_system_messages true, false and absent                           *)

\* the most prompt entries
MaxSquashPrompts == 3

SquashItems ==
    {Prompt(id, TextPlain, en, role, 0, NoDepth) :
        id \in {"main", "scenario"}, en \in BOOLEAN, role \in {"system", "user"}}

\* both identifiers enabled; scenario disabled, in the wrapped format
SquashOrders ==
    {Arr(<< OrderRecord("main", TRUE), OrderRecord("scenario", TRUE) >>),
     Arr(<<Wrapper(Arr(<< OrderRecord("main", TRUE), OrderRecord("scenario", FALSE) >>))>>)}

SquashPresets ==
    {PresetObject(Arr(t), o, sq) :
        t \in SeqsUpTo(SquashItems, MaxSquashPrompts), o \in SquashOrders,
        sq \in SquashValues}

SquashOptions ==
    {[provider |-> pr, tokenizer |-> NoTokenizer] : pr \in {"anthropic", "openai", "google"}}

InitSquash == \E p \in SquashPresets : Fresh(p)

NextSquash ==
    \/ \E opts \in SquashOptions : CallCheckProviderSpecific(opts)
    \/ Forget

SpecSquash == InitSquash /\ [][NextSquash]_vars

\* s: the number of prompt entries that are enabled, have role system and
\* are named by an enabled order record
SystemPromptCount(p) ==
    Cardinality({j \in 1..Len(p.prompts.items) :
                    /\ p.prompts.items[j].enabled
                    /\ p.prompts.items[j].role = "system"
                    /\ InEnabledOrder(p, p.prompts.items[j].identifier)})

\* a finding about squash_system_messages
IsSquashFinding(f) ==
    f.id \in {"provider-specific-anthropic-squash-on",
              "provider-specific-anthropic-squash-off"}

\* C16: under provider anthropic, with s the number of prompt entries that are
\* enabled, have role system and are named by an enabled order record,
\* checkProviderSpecific returns no finding if s <= 1, exactly one info
\* finding if s > 1 and squash_system_messages is true, exactly one warning
\* finding if s > 1 and squash_system_messages is false or absent; under
\* openai and google it returns no finding about squashing
C16_AnthropicSquash ==
    (call = "checkProviderSpecific" /\ ret.outcome = "ok") =>
        IF options.provider = "anthropic"
        THEN IF SystemPromptCount(preset) <= 1 THEN ret.findings = <<>>
             ELSE /\ Len(ret.findings) = 1
                  /\ IsSquashFinding(ret.findings[1])
                  /\ ret.findings[1].severity =
                         (IF preset.squash_system_messages = "true" THEN "info"
                          ELSE "warning")
        ELSE \A k \in 1..Len(ret.findings) : ~IsSquashFinding(ret.findings[k])

\* C16 witness: three prompt entries of which two count (the third is a
\* user prompt), squash_system_messages absent: one warning
C16_Witness ==
    /\ call = "checkProviderSpecific"
    /\ options.provider = "anthropic"
    /\ ret.outcome = "ok"
    /\ Len(preset.prompts.items) = 3
    /\ SystemPromptCount(preset) = 2
    /\ preset.squash_system_messages = "absent"
    /\ Len(ret.findings) = 1
    /\ ret.findings[1].severity = "warning"
    /\ ret.findings[1].meta.systemPromptCount = 2

-----------------------------------------------------------------------------
(* SpecVolatile: isVolatile and checkMacroPlacement on a single prompt     *)
(* entry whose content is a marker "{{" word closer after some prefix, for *)
(* dynamic names in any case, deterministic names, comments, and names     *)
(* that only resemble a dynamic one                                        *)

\* the nine names as the pattern spells them
DynamicWords ==
    {<<"r","a","n","d","o","m">>,
     <<"r","o","l","l">>,
     <<"t","i","m","e">>,
     <<"d","a","t","e">>,
     <<"w","e","e","k","d","a","y">>,
     <<"i","s","o","t","i","m","e">>,
     <<"i","s","o","d","a","t","e">>,
     <<"i","d","l","e","_","d","u","r","a","t","i","o","n">>,
     <<"t","i","m","e","_","U","T","C">>}

\* some of them in other cases
OtherCaseWords ==
    {<<"R","A","N","D","O","M">>,
     <<"R","o","l","l">>,
     <<"t","I","m","E">>,
     <<"t","i","m","e","_","u","t","c">>,
     <<"T","I","M","E","_","U","T","C">>,
     <<"I","d","l","e","_","D","u","r","a","t","i","o","n">>,
     <<"W","e","e","k","D","a","y">>}

\* char, user, getvar, setvar, the comment opener, and names that contain or
\* extend a dynamic name without being one
DeterministicWords ==
    {<<"c","h","a","r">>,
     <<"u","s","e","r">>,
     <<"g","e","t","v","a","r">>,
     <<"s","e","t","v","a","r">>,
     <<"/","/"," ">>,
     <<"t","i","m","e","r">>,
     <<"r","a","n","d">>,
     <<"d","a","t","e","t","i","m","e">>,
     <<"t","i","m","e","_">>,
     <<"i","d","l","e"," ","d","u","r","a","t","i","o","n">>}

\* what follows the word: "}}", arguments after "::", "::" alone, a single
\* brace, a blank before the braces, nothing
Closers ==
    {<<"}","}">>,
     <<":",":","x","}","}">>,
     <<":",":","x",":",":","y","}","}">>,
     <<":",":">>,
     <<"}">>,
     <<" ","}","}">>,
     <<>>}

\* what precedes the marker: nothing, text, a deterministic macro, a comment,
\* braces that open nothing
Prefixes ==
    {<<>>,
     <<"H","i"," ">>,
     <<"{","{","c","h","a","r","}","}">>,
     <<"{","{","/","/"," ","c","}","}">>,
     <<"{"," ","{">>,
     <<"{","{">>}

VolatileContents ==
    {TextEmpty} \cup
    {pre \o MacroOpen \o w \o cl :
        pre \in Prefixes,
        w \in DynamicWords \cup OtherCaseWords \cup DeterministicWords,
        cl \in Closers}

\* a volatile identifier, a stable one, and one that differs from a volatile
\* one in case only
VolatileIdentifiers == {"chatHistory", "main", "chathistory"}

VolatilePresets ==
    {PresetObject(Arr(<<Entry(id, c)>>), Arr(<<OrderRecord(id, TRUE)>>), "absent") :
        id \in VolatileIdentifiers, c \in VolatileContents}

InitVolatile == \E p \in VolatilePresets : Fresh(p)

\* isVolatile is called on the identifier and content of the preset's entry
NextVolatile ==
    \/ CallIsVolatile(preset.prompts.items[1].identifier, preset.prompts.items[1].content)
    \/ CallCheckMacroPlacement(NoOptions)
    \/ Forget

SpecVolatile == InitVolatile /\ [][NextVolatile]_vars

Letters ==
    <<"a","b","c","d","e","f","g","h","i","j","k","l","m",
      "n","o","p","q","r","s","t","u","v","w","x","y","z">>

Capitals ==
    <<"A","B","C","D","E","F","G","H","I","J","K","L","M",
      "N","O","P","Q","R","S","T","U","V","W","X","Y","Z">>

\* two characters that are equal, or the two cases of one letter
SameIgnoringCase(x, y) ==
    x = y \/ \E k \in 1..Len(Letters) : {x, y} = {Letters[k], Capitals[k]}

\* marker occurs in text at place i, case ignored
OccursAt(text, i, marker) ==
    /\ i + Len(marker) - 1 <= Len(text)
    /\ \A k \in 1..Len(marker) : SameIgnoringCase(text[i + k - 1], marker[k])

\* text contains {{name}} or {{name::, case ignored, for one of the nine names
ContainsDynamicMarker(text) ==
    \E i \in 1..Len(text), name \in DynamicWords :
        \/ OccursAt(text, i, <<"{","{">> \o name \o <<"}","}">>)
        \/ OccursAt(text, i, <<"{","{">> \o name \o <<":",":">>)

\* C19: isVolatile(identifier, content) is true iff identifier is chatHistory
\* or dialogueExamples, or content contains, in any case, a marker {{name}} or
\* {{name::...}} with name one of random, roll, time, date, weekday, isotime,
\* isodate, idle_duration, time_UTC; content whose only markers are
\* deterministic macros or comments is not classified volatile by its content
\* and yields no macro-placement finding
C19_VolatileIff ==
    /\ call = "isVolatile" =>
          ret.value = (\/ ret.identifier \in {"chatHistory", "dialogueExamples"}
                       \/ ContainsDynamicMarker(ret.content))
    /\ (call = "checkMacroPlacement" /\ ret.outcome = "ok") =>
          (ret.findings # <<>>) = ContainsDynamicMarker(preset.prompts.items[1].content)

\* C19 witness: "{{char}}{{time_utc::x}}" under main is volatile
C19_Witness ==
    /\ call = "isVolatile"
    /\ ret.identifier = "main"
    /\ ret.content = <<"{","{","c","h","a","r","}","}","{","{","t","i","m","e","_","u","t","c",":",":","x","}","}">>
    /\ ret.value = TRUE

-----------------------------------------------------------------------------
(* SpecCursor: the bundled build, where checkMacroPlacement, isVolatile    *)
(* and hasDynamicMacros share one global matcher whose cursor outlives     *)
(* each call: any sequence of calls of the classifiers and the analyzers   *)

\* the longest prompt_order
MaxOrderCursor == 2

\* one use of the shared matcher by an analyzer
VolatileOp(identifier, content) ==
    [kind |-> "isVolatile", identifier |-> identifier, content |-> content]

DynamicOp(content) == [kind |-> "hasDynamicMacros", identifier |-> "", content |-> content]

ExecLoopOp(content) == [kind |-> "execLoop", identifier |-> "", content |-> content]

\* isVolatile(entry.identifier, content) for each enabled entry, in order:
\* the classified array of checkPromptOrdering, the stableContent loops of
\* checkTokenThresholds and getStablePrefixTokens
ClassifyOps(enabledEntries, promptMap) ==
    [k \in 1..Len(enabledEntries) |->
        VolatileOp(enabledEntries[k].identifier,
                   ContentOf(Lookup(promptMap, enabledEntries[k].identifier)))]

\* the exec loop of checkMacroPlacement for each enabled entry that has a
\* prompt with content
MacroPlacementOps(enabledEntries, promptMap) ==
    LET scanned == SelectSeq(enabledEntries,
                       LAMBDA e : ContentOf(Lookup(promptMap, e.identifier)) # <<>>)
    IN  [k \in 1..Len(scanned) |->
            ExecLoopOp(ContentOf(Lookup(promptMap, scanned[k].identifier)))]

\* hasDynamicMacros(prompt.content) for each prompt the loop of
\* checkInjectionDepth does not skip
InjectionDepthOps(prompts, enabledIdentifiers) ==
    LET reached == SelectSeq(prompts,
                       LAMBDA q : InjectionPromptFindings(q, enabledIdentifiers) # <<>>)
    IN  [k \in 1..Len(reached) |-> DynamicOp(reached[k].content)]

\* checkProviderSpecific: only checkOpenAI and checkGoogle reach
\* getStablePrefixTokens
ProviderOps(p, opts) ==
    IF opts.provider \in {"openai", "google"}
    THEN ClassifyOps(EnabledEntries(p).value, p.prompts.items)
    ELSE <<>>

\* the uses of the matcher by one analyzer, or by analyze, on a preset that
\* holds well-formed prompts and prompt_order
MatcherUses(name, p, opts) ==
    CASE name = "checkMacroPlacement"   ->
             MacroPlacementOps(EnabledEntries(p).value, p.prompts.items)
      [] name = "checkPromptOrdering"   ->
             ClassifyOps(EnabledEntries(p).value, p.prompts.items)
      [] name = "checkTokenThresholds"  ->
             ClassifyOps(EnabledEntries(p).value, p.prompts.items)
      [] name = "checkInjectionDepth"   ->
             InjectionDepthOps(p.prompts.items,
                               EnabledIdentifiers(EnabledEntries(p).value))
      [] name = "checkProviderSpecific" -> ProviderOps(p, opts)
      [] name = "analyze"               ->
             MacroPlacementOps(EnabledEntries(p).value, p.prompts.items)
                 \o ClassifyOps(EnabledEntries(p).value, p.prompts.items)
                 \o ClassifyOps(EnabledEntries(p).value, p.prompts.items)
                 \o InjectionDepthOps(p.prompts.items,
                                      EnabledIdentifiers(EnabledEntries(p).value))
                 \o ProviderOps(p, opts)

RECURSIVE ExecUntilNull(_, _)
\* while ((match = DYNAMIC_MACRO_REGEX.exec(content)) !== null): the cursor
\* when the loop is left
ExecUntilNull(content, c) ==
    IF RegexExec(content, c).found
    THEN ExecUntilNull(content, RegexExec(content, c).lastIndex)
    ELSE RegexExec(content, c).lastIndex

\* DYNAMIC_MACRO_REGEX.lastIndex = 0, then the exec loop
ExecLoopAt(content, c) ==
    [value  |-> RegexExec(content, ResetLastIndex(c)).found,
     cursor |-> ExecUntilNull(content, ResetLastIndex(c)),
     starts |-> <<ResetLastIndex(c)>>]

\* one use of the matcher, the cursor at c
RunOp(op, c) ==
    CASE op.kind = "isVolatile"       -> isVolatileAt(op.identifier, op.content, c)
      [] op.kind = "hasDynamicMacros" -> hasDynamicMacrosAt(op.content, c)
      [] op.kind = "execLoop"         -> ExecLoopAt(op.content, c)

\* the starts of a use, before those of the uses after it
Prepend(starts, r) == [cursor |-> r.cursor, starts |-> starts \o r.starts]

RECURSIVE RunOps(_, _)
\* a use done, the remaining ones from the cursor it left
ThenRunOps(r, rest) == Prepend(r.starts, RunOps(rest, r.cursor))

\* the uses in order, each from the cursor the one before left
RunOps(ops, c) ==
    IF ops = <<>> THEN [cursor |-> c, starts |-> <<>>]
    ELSE ThenRunOps(RunOp(Head(ops), c), Tail(ops))

\* the findings an analyzer returns
FindingsOf(name, p, opts) ==
    CASE name = "checkMacroPlacement"   -> checkMacroPlacement(p).value
      [] name = "checkPromptOrdering"   -> checkPromptOrdering(p).value
      [] name = "checkTokenThresholds"  -> checkTokenThresholds(p, opts).value
      [] name = "checkInjectionDepth"   -> checkInjectionDepth(p).value
      [] name = "checkProviderSpecific" -> checkProviderSpecific(p, opts).value
      [] name = "analyze"               -> analyze(p, opts).findings

\* the texts the tokenizer is given during the call
AskedOf(name, p, opts) ==
    CASE name = "checkTokenThresholds"  -> ThresholdsAsked(p, opts)
      [] name = "checkProviderSpecific" -> ProviderAsked(p, opts)
      [] name = "analyze"               -> AnalyzeAsked(p, opts)
      [] OTHER                          -> <<>>

\* what the call returned, the cursor it began at and the cursors the matcher
\* was started from
Scanned(findings, r, c) ==
    [outcome |-> "ok", findings |-> findings, starts |-> r.starts, entered |-> c]

\* a call of an analyzer of the bundle, or of its analyze
CallBundled(name, opts) ==
    /\ call = "none"
    /\ call' = name
    /\ options' = opts
    /\ ret' = Scanned(FindingsOf(name, preset, opts),
                      RunOps(MatcherUses(name, preset, opts), cursor), cursor)
    /\ cursor' = CursorAfter(RunOps(MatcherUses(name, preset, opts), cursor))
    /\ asked' = AskedOf(name, preset, opts)
    /\ UNCHANGED <<preset, scoreInput, scoreOutput, host>>

CursorContents == {TextPlain, TextRandom, TextRollDate, TextUpperTime, TextEmpty}

CursorIdentifiers == {"main", "chatHistory"}

CursorOrders == {Arr(o) : o \in SeqsUpTo(RulesItems, MaxOrderCursor)}

CursorPresets ==
    {PresetObject(Arr(t), o, "absent") : t \in FullTables, o \in CursorOrders}

InitCursor == \E p \in CursorPresets : Fresh(p)

NextCursor ==
    \/ \E id \in CursorIdentifiers, c \in CursorContents : CallIsVolatile(id, c)
    \/ \E c \in CursorContents : CallHasDynamicMacros(c)
    \/ \E name \in AnalyzerCalls \cup {"analyze"}, opts \in OptionValues :
          CallBundled(name, opts)
    \/ Forget

SpecCursor == InitCursor /\ [][NextCursor]_vars

\* C20: after any sequence of calls of isVolatile, hasDynamicMacros,
\* checkMacroPlacement and the other analyzers on the one shared matcher,
\* calls that leave its cursor past a match included, every matching
\* operation starts with the cursor at 0, and isVolatile(identifier, content)
\* returns what it returns with a fresh matcher; so does hasDynamicMacros
C20_HistoryIndependent ==
    /\ call # "none" => \A k \in 1..Len(ret.starts) : ret.starts[k] = 0
    /\ call = "isVolatile" => ret.value = isVolatile(ret.identifier, ret.content)
    /\ call = "hasDynamicMacros" => ret.value = hasDynamicMacros(ret.content)

\* C20 witness: isVolatile is called on "{{TIME}}" while the cursor stands at
\* 10, past the end of that text, where a match in "{{random}}" left it; the
\* matcher is started from 0 and the answer is true
C20_Witness ==
    /\ call = "isVolatile"
    /\ ret.entered = 10
    /\ ret.identifier = "main"
    /\ ret.content = TextUpperTime
    /\ ret.starts = <<0>>
    /\ ret.value = TRUE

-----------------------------------------------------------------------------
(* SpecFrame: one preset object handed to the five analyzers one after the *)
(* other, in every order, each analyzer once; the object and the shared    *)
(* matcher are what a call could leave changed for the calls after it      *)

\* as if the enabled filter replaced preset.prompt_order by its result
PresetAfterFilterInPlace(name, p, opts) ==
    IF name = "checkMacroPlacement"
    THEN [p EXCEPT !.prompt_order = Arr(EnabledEntries(p).value)]
    ELSE p

\* the preset object when the analyzer returns.  The bodies only read it:
\* order = order[0].order rebinds a local, order.filter(...) builds a new
\* array, promptMap[p.identifier] = p writes a local object, findings.push
\* writes a local array, and the tokenizer is handed a string
PresetAfter(name, p, opts) == p

\* the analyzers already called on the object
Done(r) == IF r = NoReturn THEN {} ELSE r.done

\* the object as the first analyzer received it
Original(r, p) == IF r = NoReturn THEN p ELSE r.original

\* what is known when a call of the sequence returns
SessionStep(r, name, p, findings) ==
    [outcome  |-> "ok",
     findings |-> findings,
     original |-> Original(r, p),
     before   |-> p,
     done     |-> Done(r) \cup {name}]

\* one analyzer called on the object the calls before it left
CallInSession(name, opts) ==
    /\ call = "none"
    /\ name \notin Done(ret)
    /\ ret # NoReturn => opts = options
    /\ call' = name
    /\ options' = opts
    /\ preset' = PresetAfter(name, preset, opts)
    /\ ret' = SessionStep(ret, name, preset, FindingsOf(name, preset, opts))
    /\ cursor' = CursorAfter(RunOps(MatcherUses(name, preset, opts), cursor))
    /\ asked' = AskedOf(name, preset, opts)
    /\ UNCHANGED <<scoreInput, scoreOutput, host>>

\* the analyzer has returned; the caller keeps the object and calls the next
Resume ==
    /\ call # "none"
    /\ call' = "none"
    /\ UNCHANGED <<preset, options, ret, asked, cursor, scoreInput, scoreOutput, host>>

FrameOrders ==
    { Arr(<<OrderRecord("main", TRUE), OrderRecord("chatHistory", TRUE),
            OrderRecord("scenario", TRUE)>>),
      Arr(<<OrderRecord("scenario", TRUE), OrderRecord("main", FALSE),
            OrderRecord("main", TRUE)>>),
      Arr(<<Wrapper(Arr(<<OrderRecord("chatHistory", TRUE),
                          OrderRecord("main", TRUE),
                          OrderRecord("scenario", FALSE)>>))>>) }

FramePresets ==
    {PresetObject(Arr(t), o, sq) :
        t \in FullTables, o \in FrameOrders, sq \in {"absent", "true"}}

FrameOptions ==
    { [provider |-> "anthropic", tokenizer |-> NoTokenizer],
      [provider |-> "google",    tokenizer |-> FixedTokenizer(1000)],
      [provider |-> "openai",    tokenizer |-> NoTokenizer] }

InitFrame == \E p \in FramePresets : Fresh(p)

NextFrame ==
    \/ \E name \in AnalyzerCalls, opts \in FrameOptions : CallInSession(name, opts)
    \/ Resume

SpecFrame == InitFrame /\ [][NextFrame]_vars

-----------------------------------------------------------------------------
(* SpecMissing: prompt_order records whose identifier has no prompt entry  *)
(* (ghost, chatHistory), among records that have one, under the four       *)
(* analyzers that walk the effective sequence                              *)

\* the longest prompt_order
MaxOrderMissing == 3

\* main holds a dynamic macro; scenario and persona are static
MissingTable ==
    << Entry("main", TextRandom), Entry("scenario", TextPlain),
       Entry("persona", TextChar) >>

MissingItems ==
    {OrderRecord("main", TRUE), OrderRecord("scenario", TRUE),
     OrderRecord("persona", TRUE), OrderRecord("ghost", TRUE),
     OrderRecord("chatHistory", TRUE), OrderRecord("ghost", FALSE)}

MissingOrders == {Arr(o) : o \in SeqsUpTo(MissingItems, MaxOrderMissing)}

MissingPresets == {PresetObject(Arr(MissingTable), o, "absent") : o \in MissingOrders}

MissingOptions == {[provider |-> "google", tokenizer |-> NoTokenizer]}

InitMissing == \E p \in MissingPresets : Fresh(p)

NextMissing ==
    \/ CallCheckMacroPlacement(NoOptions)
    \/ CallCheckPromptOrdering(NoOptions)
    \/ \E opts \in MissingOptions : CallCheckTokenThresholds(opts)
    \/ \E opts \in MissingOptions : CallCheckProviderSpecific(opts)
    \/ Forget

SpecMissing == InitMissing /\ [][NextMissing]_vars

\* some prompt entry carries the identifier of the order record
HasEntry(p, record) ==
    \E k \in 1..Len(p.prompts.items) : p.prompts.items[k].identifier = record.identifier

\* the enabled order record with pos enabled records before it
EnabledAt(p, pos) == OrderRecords(p)[RecordAt(OrderRecords(p), pos)]

\* the class of the record at a position: by identifier alone when it has no
\* prompt entry, by identifier or dynamic macro in its content when it has
VolatileAt(p, pos) ==
    IF HasEntry(p, EnabledAt(p, pos))
    THEN \/ EnabledAt(p, pos).identifier \in {"chatHistory", "dialogueExamples"}
         \/ Occurrences(ContentFor(p, EnabledAt(p, pos))) # {}
    ELSE EnabledAt(p, pos).identifier \in {"chatHistory", "dialogueExamples"}

\* the positions after pos whose record is stable, missing ones included
StablePositionsAfter(p, pos) ==
    {j \in (pos + 1)..(EnabledCount(OrderRecords(p)) - 1) : ~VolatileAt(p, j)}

\* the contents of the stable prefix, taken from records that have an entry
PartsOfPresent(p) ==
    LET kept == SelectSeq(OrderRecords(p), LAMBDA r : HasEntry(p, r) /\ InPrefix(p, r))
    IN  [j \in 1..Len(kept) |-> ContentFor(p, kept[j])]

\* the macro-placement findings: one per occurrence at each position of the
\* enabled sequence, missing records counted in positions and in the total
MissingInMacroPlacement(p, findings) ==
    /\ \A k \in 1..Len(findings) :
          /\ findings[k].meta.totalEntries = EnabledCount(OrderRecords(p))
          /\ HasEntry(p, EnabledAt(p, findings[k].meta.position))
          /\ findings[k].affectedEntry = EnabledAt(p, findings[k].meta.position).identifier
          /\ findings[k].severity =
                (IF findings[k].meta.position = 0 THEN "critical"
                 ELSE IF 5 * findings[k].meta.position < 2 * EnabledCount(OrderRecords(p))
                      THEN "warning"
                 ELSE "info")
    /\ \A pos \in 0..(EnabledCount(OrderRecords(p)) - 1) :
          Len(FoundAt(findings, pos)) =
              Cardinality(Occurrences(ContentFor(p, EnabledAt(p, pos))))

\* the prompt-ordering findings: one for each volatile position followed by
\* two or more stable ones, missing records classified by identifier
MissingInPromptOrdering(p, findings) ==
    /\ {findings[k].meta.volatilePosition : k \in 1..Len(findings)} =
           {pos \in 0..(EnabledCount(OrderRecords(p)) - 1) :
               VolatileAt(p, pos) /\ Cardinality(StablePositionsAfter(p, pos)) >= 2}
    /\ \A k \in 1..Len(findings) :
          /\ findings[k].meta.stableEntriesAfter =
                Cardinality(StablePositionsAfter(p, findings[k].meta.volatilePosition))
          /\ {findings[k].meta.stableIdentifiers[j] :
                 j \in 1..Len(findings[k].meta.stableIdentifiers)} =
                {EnabledAt(p, j).identifier :
                    j \in StablePositionsAfter(p, findings[k].meta.volatilePosition)}

\* C22: an identifier of the effective sequence without a prompt entry is
\* read as empty content and raises no error, yet holds a position: it counts
\* in totalEntries and moves the position, hence the severity, of later macro
\* findings; it gives no macro-placement finding and no part of the stable
\* prefix; checkPromptOrdering classes it by identifier alone, volatile iff
\* chatHistory or dialogueExamples, otherwise a stable entry after earlier
\* volatile ones
C22_MissingEntry ==
    call # "none" =>
        /\ ret.outcome = "ok"
        /\ call = "checkMacroPlacement" => MissingInMacroPlacement(preset, ret.findings)
        /\ call = "checkPromptOrdering" => MissingInPromptOrdering(preset, ret.findings)
        /\ call \in {"checkTokenThresholds", "checkProviderSpecific"} =>
              /\ Len(asked) = 1
              /\ IsJoinOf(asked[1], PartsOfPresent(preset))

\* C22 witness: ghost, main, scenario: the macro of main is reported at
\* position 1 of 3 as a warning, where without ghost it would be critical at
\* position 0
C22_Witness ==
    /\ call = "checkMacroPlacement"
    /\ preset.prompt_order =
           Arr(<<OrderRecord("ghost", TRUE), OrderRecord("main", TRUE),
                 OrderRecord("scenario", TRUE)>>)
    /\ Len(ret.findings) = 1
    /\ ret.findings[1].meta.position = 1
    /\ ret.findings[1].meta.totalEntries = 3
    /\ ret.findings[1].severity = "warning"

-----------------------------------------------------------------------------
(* SpecDashboard: the bundle loaded by SillyTavern: init, the Analyze      *)
(* button and its delayed analysis, the two host events, the two slash     *)
(* commands, and the host changing the preset and the settings.  preset    *)
(* is oai_settings (null while it is undefined); the presets conform to    *)
(* the data model, so that analyze returns                                 *)

\* the most delayed analyses pending at once
MaxTimers == 2

\* a preset source that yields an empty preset when oai_settings is undefined
getCurrentPresetOrEmpty(o) ==
    PresetObject(IF Truthy(o) /\ Truthy(o.prompts) THEN o.prompts ELSE Arr(<<>>),
                 IF Truthy(o) /\ Truthy(o.prompt_order) THEN o.prompt_order ELSE Arr(<<>>),
                 IF Truthy(o) /\ o.squash_system_messages = "true" THEN "true" ELSE "false")

\* typeof oai_settings === 'undefined' -> null; else prompts || [],
\* prompt_order || [], squash_system_messages || false
getCurrentPreset(o) ==
    IF ~Truthy(o) THEN Null
    ELSE PresetObject(IF Truthy(o.prompts) THEN o.prompts ELSE Arr(<<>>),
                      IF Truthy(o.prompt_order) THEN o.prompt_order ELSE Arr(<<>>),
                      IF o.squash_system_messages = "true" THEN "true" ELSE "false")

\* chat_completion_source: claude, openai, google; anything else is anthropic
detectProvider(source) ==
    CASE source = "claude" -> "anthropic"
      [] source = "openai" -> "openai"
      [] source = "google" -> "google"
      [] OTHER             -> "anthropic"

\* settings.provider === 'auto' ? detectProvider() : settings.provider
ProviderFor(h) == IF h.provider = "auto" THEN detectProvider(h.source) ELSE h.provider

\* the options runAnalysis hands to analyze: { provider }
AnalysisOptions(h) == [provider |-> ProviderFor(h), tokenizer |-> NoTokenizer]

\* if (!panelBody) return; remove ca-loading; innerHTML = renderEmptyState()
showEmpty(h) ==
    IF h.panel = "none" THEN h
    ELSE [h EXCEPT !.marker = FALSE, !.panel = "empty", !.shown = NoReturn]

\* if (!panelBody) return; add ca-loading; innerHTML = renderLoadingState()
showLoading(h) ==
    IF h.panel = "none" THEN h
    ELSE [h EXCEPT !.marker = TRUE, !.panel = "loading", !.shown = NoReturn]

\* if (!panelBody) return; remove ca-loading; innerHTML = renderResults(...)
updateDashboard(h, results) ==
    IF h.panel = "none" THEN h
    ELSE [h EXCEPT !.marker = FALSE, !.panel = "results", !.shown = results]

\* runAnalysis once analyze has returned or thrown: an error leaves the
\* handler before updateDashboard
AfterAnalyze(h, results) ==
    IF results.outcome # "ok"
    THEN [host |-> h, value |-> Throw, analyzed |-> 1]
    ELSE [host |-> updateDashboard(h, results), value |-> results, analyzed |-> 1]

\* a runAnalysis that returns null on a missing preset and leaves the panel
\* as it is
runAnalysisLeavingPanel(h, o) ==
    IF ~Truthy(getCurrentPreset(o))
    THEN [host |-> h, value |-> Null, analyzed |-> 0]
    ELSE AfterAnalyze(h, analyze(getCurrentPreset(o), AnalysisOptions(h)))

\* runAnalysis: what it leaves of the host, what it returns, and how often it
\* called analyze
runAnalysis(h, o) ==
    IF ~Truthy(getCurrentPreset(o))
    THEN [host |-> showEmpty(h), value |-> Null, analyzed |-> 0]
    ELSE AfterAnalyze(h, analyze(getCurrentPreset(o), AnalysisOptions(h)))

\* `Cache Efficiency Score: ${score}/100 (${critical} critical, ${warning}
\* warnings, ${info} info)`
ScoreReport(results) ==
    "Cache Efficiency Score: " \o ToString(results.score) \o "/100 ("
        \o ToString(results.summary.critical) \o " critical, "
        \o ToString(results.summary.warning) \o " warnings, "
        \o ToString(results.summary.info) \o " info)"

\* the callback of cache-score, given what runAnalysis returned
CacheScoreReply(value) ==
    IF value.outcome = "TypeError" THEN [kind |-> "rejected"]
    ELSE [kind |-> "text", text |-> ScoreReport(value)]

\* if (!results) return 'No preset loaded'
CacheScoreCallback(value) ==
    IF value = Null THEN [kind |-> "text", text |-> "No preset loaded"]
    ELSE CacheScoreReply(value)

\* a handler has run: what it was, and what its runAnalysis did
Stepped(r, name, ran) ==
    [r.host EXCEPT !.last = name, !.ran = ran, !.analyzed = r.analyzed,
                   !.reply = NoReply]

\* a step that does not reach runAnalysis
Quiet(h, name) ==
    /\ host' = [h EXCEPT !.last = name, !.ran = 0, !.analyzed = 0, !.reply = NoReply]
    /\ ret' = NoReturn
    /\ options' = NoOptions

\* init(): getSettings, the panel when the drawer element exists, the two
\* event handlers when settings.autoAnalyze, the slash commands
Load(drawer) ==
    /\ ~host.loaded
    /\ Quiet([host EXCEPT !.loaded = TRUE,
                           !.panel = IF drawer THEN "empty" ELSE "none",
                           !.listening = host.autoAnalyze], "init")
    /\ UNCHANGED <<preset, call, scoreInput, scoreOutput, asked, cursor>>

\* click on Analyze: showLoading(); setTimeout(runAnalysis, 50)
ClickAnalyze ==
    /\ host.loaded
    /\ host.panel # "none"
    /\ host.timers < MaxTimers
    /\ Quiet([showLoading(host) EXCEPT !.timers = host.timers + 1], "click")
    /\ UNCHANGED <<preset, call, scoreInput, scoreOutput, asked, cursor>>

\* a handler that calls runAnalysis once
RunsAnalysis(h, name) ==
    /\ host' = Stepped(runAnalysis(h, preset), name, 1)
    /\ ret' = runAnalysis(h, preset).value
    /\ options' = AnalysisOptions(h)
    /\ UNCHANGED <<preset, call, scoreInput, scoreOutput, asked, cursor>>

\* the delay has passed: function () { runAnalysis(); }
TimerFires ==
    /\ host.timers > 0
    /\ RunsAnalysis([host EXCEPT !.timers = host.timers - 1], "timer")

\* the host emits OAI_PRESET_CHANGED or SETTINGS_UPDATED: the handler runs
\* if init registered it
HostEvent(name) ==
    /\ host.loaded
    /\ IF host.listening THEN RunsAnalysis(host, name)
       ELSE /\ Quiet(host, name)
            /\ UNCHANGED <<preset, call, scoreInput, scoreOutput, asked, cursor>>

\* /cache-analyze: runAnalysis(); return ''
CacheAnalyze ==
    /\ host.loaded
    /\ host' = [Stepped(runAnalysis(host, preset), "cache-analyze", 1)
                    EXCEPT !.reply = [kind |-> "text", text |-> ""]]
    /\ ret' = runAnalysis(host, preset).value
    /\ options' = AnalysisOptions(host)
    /\ UNCHANGED <<preset, call, scoreInput, scoreOutput, asked, cursor>>

\* /cache-score: results = runAnalysis(); the one-line report
CacheScore ==
    /\ host.loaded
    /\ host' = [Stepped(runAnalysis(host, preset), "cache-score", 1)
                    EXCEPT !.reply = CacheScoreCallback(runAnalysis(host, preset).value)]
    /\ ret' = runAnalysis(host, preset).value
    /\ options' = AnalysisOptions(host)
    /\ UNCHANGED <<preset, call, scoreInput, scoreOutput, asked, cursor>>

\* SillyTavern replaces oai_settings (another preset, or none readable)
HostSetsPreset(o) ==
    /\ preset # o
    /\ preset' = o
    /\ Quiet(host, "preset")
    /\ UNCHANGED <<call, scoreInput, scoreOutput, asked, cursor>>

\* the user's settings change: extensionSettings.cache_analyzer.autoAnalyze,
\* .provider, or the chat completion source
HostSetsSettings(autoAnalyze, provider, source) ==
    /\ <<autoAnalyze, provider, source>> # <<host.autoAnalyze, host.provider, host.source>>
    /\ Quiet([host EXCEPT !.autoAnalyze = autoAnalyze, !.provider = provider,
                           !.source = source], "settings")
    /\ UNCHANGED <<preset, call, scoreInput, scoreOutput, asked, cursor>>

\* oai_settings: undefined; without prompts; a preset of the data model
HostPresets ==
    { Null,
      PresetObject(Absent, Absent, "absent"),
      PresetObject(Arr(FullTableA),
                   Arr(<<Wrapper(Arr(<<OrderRecord("main", TRUE),
                                       OrderRecord("chatHistory", TRUE),
                                       OrderRecord("scenario", TRUE)>>))>>), "true") }

\* (settings.provider, chat_completion_source)
HostProviders == {<<"auto", "claude">>, <<"google", "claude">>}

InitDashboard ==
    /\ preset \in HostPresets
    /\ options = NoOptions
    /\ call = "none"
    /\ ret = NoReturn
    /\ scoreInput = <<>>
    /\ scoreOutput = calculateScore(<<>>)
    /\ asked = <<>>
    /\ cursor = 0
    /\ \E autoAnalyze \in BOOLEAN, pr \in HostProviders :
          host = [NoHost EXCEPT !.autoAnalyze = autoAnalyze,
                                !.provider = pr[1], !.source = pr[2]]

NextDashboard ==
    \/ \E drawer \in BOOLEAN : Load(drawer)
    \/ ClickAnalyze
    \/ TimerFires
    \/ \E name \in {"OAI_PRESET_CHANGED", "SETTINGS_UPDATED"} : HostEvent(name)
    \/ CacheAnalyze
    \/ CacheScore
    \/ \E o \in HostPresets : HostSetsPreset(o)
    \/ \E autoAnalyze \in BOOLEAN, pr \in HostProviders :
          HostSetsSettings(autoAnalyze, pr[1], pr[2])

SpecDashboard == InitDashboard /\ [][NextDashboard]_vars

\* the last handler called runAnalysis
RanAnalysis == host.last \in {"timer", "OAI_PRESET_CHANGED", "SETTINGS_UPDATED",
                              "cache-analyze", "cache-score"} /\ host.ran > 0

\* C23: without a preset snapshot no score is presented: runAnalysis returns
\* null without calling analyze, cache-score answers 'No preset loaded' and
\* never a score report, and the panel is in the empty state, showing no
\* score; with a preset, cache-score answers 'Cache Efficiency Score:
\* {score}/100 ({critical} critical, {warning} warnings, {info} info)' built
\* from the one analysis result of that run
C23_NoPresetNoScore ==
    RanAnalysis =>
        IF preset = Null
        THEN /\ ret = Null
             /\ host.analyzed = 0
             /\ host.panel \in {"none", "empty"}
             /\ host.shown = NoReturn
             /\ host.last = "cache-score" =>
                   host.reply = [kind |-> "text", text |-> "No preset loaded"]
        ELSE /\ host.analyzed = 1
             /\ ret = analyze(getCurrentPreset(preset), options)
             /\ host.last = "cache-score" =>
                   /\ host.reply.kind = "text"
                   /\ host.reply.text =
                        "Cache Efficiency Score: " \o ToString(ret.score) \o "/100 ("
                           \o ToString(CountSeverity(ret.findings, "critical")) \o " critical, "
                           \o ToString(CountSeverity(ret.findings, "warning")) \o " warnings, "
                           \o ToString(CountSeverity(ret.findings, "info")) \o " info)"

\* C23 witness: cache-score is asked while oai_settings is undefined: the
\* answer is 'No preset loaded', runAnalysis returned null and the panel is in
\* the empty state
C23_Witness ==
    /\ host.last = "cache-score"
    /\ preset = Null
    /\ host.reply = [kind |-> "text", text |-> "No preset loaded"]
    /\ host.panel = "empty"
    /\ ret = Null

\* C27: auto-analysis follows the autoAnalyze setting as it stands when the
\* event arrives: an OAI_PRESET_CHANGED or SETTINGS_UPDATED event runs
\* runAnalysis exactly once when autoAnalyze is enabled and not at all when it
\* is disabled, whether it was disabled before init or after it
C27_AutoAnalyzeFollowsSetting ==
    host.last \in {"OAI_PRESET_CHANGED", "SETTINGS_UPDATED"} =>
        host.ran = (IF host.autoAnalyze THEN 1 ELSE 0)

\* the browser runs every callback handed to setTimeout once its delay has
\* passed: weak fairness of TimerFires. The only guard of TimerFires is a
\* pending timer and every TimerFires step takes one away, so ENABLED
\* <<TimerFires>>_vars is host.timers > 0 and the fairness condition reads:
\* again and again no timer is pending, or again and again one fires
TimerFairness == []<>(host.timers = 0) \/ []<><<TimerFires>>_vars

SpecDashboardLive == SpecDashboard /\ TimerFairness

\* a panel exists and shows the loading state
Loading == host.panel = "loading"

\* the panel as a click leaves it, the one run of a delayed analysis, and the
\* panel once no delayed analysis is pending
Settled ==
    /\ host.last = "click" =>
          /\ Loading
          /\ host.marker
          /\ host.ran = 0
          /\ host.timers > 0
    /\ host.last = "timer" => host.ran = 1
    /\ Loading => host.timers > 0
    /\ (host.loaded /\ host.panel # "none" /\ host.timers = 0) =>
          /\ host.panel \in {"results", "empty"}
          /\ ~host.marker

\* C30: the dashboard never stays in the loading state: a click on Analyze
\* puts the panel in the loading state with the marker on the button and runs
\* nothing yet; the delayed callback runs the analysis exactly once; whatever
\* clicks, events and slash commands interleave, once no delayed analysis is
\* pending the panel shows results or the empty state and the button carries
\* no marker, with or without a preset; and every loading state is followed
\* by a state that is not loading
C30_NeverStaysLoading == []Settled /\ (Loading ~> ~Loading)

\* two clicks without a preset, both delayed analyses have run: the panel is
\* in the empty state and the marker is gone
C30_Witness ==
    /\ host.last = "timer"
    /\ host.timers = 0
    /\ host.ran = 1
    /\ preset = Null
    /\ host.panel = "empty"
    /\ ~host.marker

-----------------------------------------------------------------------------
(* SpecBundle: the rules as the bundle inlines them, around its one        *)
(* matcher, next to the separate modules, each with a matcher of its own.  *)
(* The bundle is read on presets that conform to the data model; every     *)
(* answer of the matcher is taken from the cursor the use before left      *)

\* the longest prompt_order
MaxOrderBundle == 3

\* the answer of a use, before those of the uses after it
PrependValue(value, r) == [value |-> <<value>> \o r.value, cursor |-> r.cursor]

\* findings pushed, before those pushed later
PrependFindings(findings, r) == [value |-> findings \o r.value, cursor |-> r.cursor]

\* nothing pushed, the matcher not used
BundleNothing(c) == [value |-> <<>>, cursor |-> c]

RECURSIVE BundleAnswers(_, _)
\* a use answered, the remaining ones from the cursor it left
ThenAnswers(r, rest) == PrependValue(r.value, BundleAnswers(rest, r.cursor))

\* the answers of isVolatile / hasDynamicMacros for the uses in order
BundleAnswers(ops, c) ==
    IF ops = <<>> THEN BundleNothing(c)
    ELSE ThenAnswers(RunOp(Head(ops), c), Tail(ops))

\* const prompt = promptMap[entry.identifier] (i is 0-based)
BundlePromptAt(enabledEntries, promptMap, i) ==
    Lookup(promptMap, enabledEntries[i + 1].identifier)

RECURSIVE BundleMacroLoop(_, _, _, _)
\* the body of the for loop for an entry with content: lastIndex = 0, the
\* exec loop, then the next entry
BundleMacroScan(enabledEntries, promptMap, i, c, content) ==
    PrependFindings(
        ScanMacros(enabledEntries[i + 1], content, i, Len(enabledEntries),
                   ResetLastIndex(c), 0),
        BundleMacroLoop(enabledEntries, promptMap, i + 1,
                        ExecUntilNull(content, ResetLastIndex(c))))

\* for (let i = 0; i < enabledEntries.length; i++) { ... }
BundleMacroLoop(enabledEntries, promptMap, i, c) ==
    IF i >= Len(enabledEntries) THEN BundleNothing(c)
    ELSE IF \/ ~Truthy(BundlePromptAt(enabledEntries, promptMap, i))
            \/ BundlePromptAt(enabledEntries, promptMap, i).content = <<>>
    THEN BundleMacroLoop(enabledEntries, promptMap, i + 1, c)
    ELSE BundleMacroScan(enabledEntries, promptMap, i, c,
                         BundlePromptAt(enabledEntries, promptMap, i).content)

BundleCheckMacroPlacement(p, c) ==
    IF GuardFails(p) THEN BundleNothing(c)
    ELSE IF Len(EnabledEntries(p).value) = 0 THEN BundleNothing(c)
    ELSE BundleMacroLoop(EnabledEntries(p).value, p.prompts.items, 0, c)

\* the inner loop over classified: the positions after i that are not volatile
BundleStableAfter(flags, i) ==
    SelectSeq([k \in 1..(Len(flags) - i) |-> i + k], LAMBDA j : ~flags[j])

\* the outer loop over classified
BundleOrderingLoop(enabledEntries, r) ==
    [value  |-> Flatten([i \in 1..Len(enabledEntries) |->
                    IF ~r.value[i] THEN <<>>
                    ELSE OrderingFinding(enabledEntries, i - 1,
                                         BundleStableAfter(r.value, i))]),
     cursor |-> r.cursor]

BundleCheckPromptOrdering(p, c) ==
    IF GuardFails(p) THEN BundleNothing(c)
    ELSE IF Len(EnabledEntries(p).value) = 0 THEN BundleNothing(c)
    ELSE BundleOrderingLoop(EnabledEntries(p).value,
             BundleAnswers(ClassifyOps(EnabledEntries(p).value, p.prompts.items), c))

\* if (!isVolatile(entry.identifier, content) && content) stableContent.push
BundleStableContent(enabledEntries, promptMap, flags) ==
    LET keep == SelectSeq([k \in 1..Len(enabledEntries) |-> k],
                    LAMBDA k : /\ ~flags[k]
                               /\ ContentOf(Lookup(promptMap,
                                      enabledEntries[k].identifier)) # <<>>)
    IN  [k \in 1..Len(keep) |->
            ContentOf(Lookup(promptMap, enabledEntries[keep[k]].identifier))]

\* tokenizer(stableContent.join('\n'))
BundleEstimate(enabledEntries, promptMap, tokenizer, r) ==
    [value  |-> ApplyTokenizer(tokenizer,
                    JoinNewline(BundleStableContent(enabledEntries, promptMap, r.value))),
     cursor |-> r.cursor]

\* the stable-content loop of checkTokenThresholds and getStablePrefixTokens
BundleStablePrefixTokens(p, tokenizer, c) ==
    BundleEstimate(EnabledEntries(p).value, p.prompts.items, tokenizer,
        BundleAnswers(ClassifyOps(EnabledEntries(p).value, p.prompts.items), c))

\* a severity that warns from 80 percent of the threshold on
BundleThresholdSeverityFrom80(estimatedTokens, threshold) ==
    IF threshold.kind = "number" /\ 10 * estimatedTokens >= 8 * threshold.value
    THEN "warning" ELSE "info"

\* const severity = ratio >= 0.9 ? 'warning' : 'info'
BundleThresholdSeverity(estimatedTokens, threshold) ==
    IF threshold.kind = "number" /\ 10 * estimatedTokens >= 9 * threshold.value
    THEN "warning" ELSE "info"

\* if (estimatedTokens >= threshold) return findings; findings.push({...})
BundleThresholdFinding(provider, threshold, r) ==
    [value  |-> IF AtLeast(r.value, threshold) THEN <<>>
                ELSE << [id            |-> "token-thresholds-" \o provider,
                         rule          |-> "token-thresholds",
                         severity      |-> BundleThresholdSeverity(r.value, threshold),
                         affectedEntry |-> "all",
                         provider      |-> provider,
                         meta          |-> [estimatedTokens |-> r.value,
                                            threshold       |-> threshold,
                                            deficit         |-> Deficit(threshold, r.value),
                                            ratio           |-> Ratio(r.value, threshold)]] >>,
     cursor |-> r.cursor]

BundleCheckTokenThresholds(p, opts, c) ==
    IF GuardFails(p) THEN BundleNothing(c)
    ELSE BundleThresholdFinding(ProviderOrDefault(opts.provider),
                                ThresholdOf(ProviderOrDefault(opts.provider)),
                                BundleStablePrefixTokens(p, opts.tokenizer, c))

RECURSIVE BundleInjectionLoop(_, _, _, _)
\* isDynamic = hasDynamicMacros(prompt.content); findings.push({...}); next
BundleInjectionPush(prompts, enabledIds, k, r) ==
    PrependFindings(
        <<InjectionFinding(prompts[k], prompts[k].injection_depth[1], r.value)>>,
        BundleInjectionLoop(prompts, enabledIds, k + 1, r.cursor))

\* for (const prompt of preset.prompts) { three continues; push }
BundleInjectionLoop(prompts, enabledIds, k, c) ==
    IF k > Len(prompts) THEN BundleNothing(c)
    ELSE IF ~prompts[k].enabled \/ prompts[k].identifier \notin enabledIds
    THEN BundleInjectionLoop(prompts, enabledIds, k + 1, c)
    ELSE IF prompts[k].injection_position # 1
    THEN BundleInjectionLoop(prompts, enabledIds, k + 1, c)
    ELSE IF prompts[k].injection_depth = NoDepth \/ prompts[k].injection_depth[1] >= 4
    THEN BundleInjectionLoop(prompts, enabledIds, k + 1, c)
    ELSE BundleInjectionPush(prompts, enabledIds, k,
                             hasDynamicMacrosAt(prompts[k].content, c))

BundleCheckInjectionDepth(p, c) ==
    IF GuardFails(p) THEN BundleNothing(c)
    ELSE BundleInjectionLoop(p.prompts.items,
                             EnabledIdentifiers(EnabledEntries(p).value), 1, c)

\* checkOpenAI, given the estimate
BundleOpenAI(r) ==
    [value |-> OpenAIFinding(r.value, r.value % OPENAI_BOUNDARY), cursor |-> r.cursor]

\* checkGoogle, given the estimate
BundleGoogle(r) == [value |-> GoogleFinding(r.value), cursor |-> r.cursor]

\* checkAnthropic uses no matcher
BundleAnthropic(p, opts, c) == [value |-> checkAnthropic(p, opts).value, cursor |-> c]

BundleCheckProviderSpecific(p, opts, c) ==
    IF GuardFails(p) THEN BundleNothing(c)
    ELSE IF opts.provider = NoProvider THEN BundleNothing(c)
    ELSE IF opts.provider = "anthropic" THEN BundleAnthropic(p, opts, c)
    ELSE IF opts.provider = "openai"
    THEN BundleOpenAI(BundleStablePrefixTokens(p, opts.tokenizer, c))
    ELSE IF opts.provider = "google"
    THEN BundleGoogle(BundleStablePrefixTokens(p, opts.tokenizer, c))
    ELSE BundleNothing(c)

\* if critical: -20; else if warning: -10; else if info: -3
BundleScoreStep(score, f) ==
    IF f.severity = "critical" THEN score - 20
    ELSE IF f.severity = "warning" THEN score - 10
    ELSE IF f.severity = "info" THEN score - 3
    ELSE score

RECURSIVE BundleScoreLoop(_, _)
BundleScoreLoop(findings, score) ==
    IF findings = <<>> THEN score
    ELSE BundleScoreLoop(Tail(findings), BundleScoreStep(score, Head(findings)))

BundleCalculateScore(findings) == Max(0, Min(100, BundleScoreLoop(findings, 100)))

\* the spread of one more finding list
Spread(r, next) == [value |-> r.value \o next.value, cursor |-> next.cursor]

\* the five spreads of analyze, each analyzer from the cursor the one before left
BundleSpread5(p, opts, r) == Spread(r, BundleCheckProviderSpecific(p, opts, r.cursor))

BundleSpread4(p, opts, r) ==
    BundleSpread5(p, opts, Spread(r, BundleCheckInjectionDepth(p, r.cursor)))

BundleSpread3(p, opts, r) ==
    BundleSpread4(p, opts, Spread(r, BundleCheckTokenThresholds(p, opts, r.cursor)))

BundleSpread2(p, opts, r) ==
    BundleSpread3(p, opts, Spread(r, BundleCheckPromptOrdering(p, r.cursor)))

BundleFindings(p, opts, c) == BundleSpread2(p, opts, BundleCheckMacroPlacement(p, c))

\* { findings, score, summary }
BundleResult(findings) ==
    [outcome  |-> "ok",
     findings |-> findings,
     score    |-> BundleCalculateScore(findings),
     summary  |-> [critical |-> Len(SelectSeq(findings, LAMBDA f : f.severity = "critical")),
                   warning  |-> Len(SelectSeq(findings, LAMBDA f : f.severity = "warning")),
                   info     |-> Len(SelectSeq(findings, LAMBDA f : f.severity = "info"))]]

\* analyze of the bundle, its matcher standing at c
BundleAnalyze(p, opts, c) == BundleResult(BundleFindings(p, opts, c).value)

\* what the call returned, and the cursor it found the matcher at
EnteredAt(r, c) == [result |-> r, entered |-> c]

\* a call of the bundle's analyze; the matcher keeps the cursor the call left
CallBundleAnalyze(opts) ==
    /\ call = "none"
    /\ call' = "bundle.analyze"
    /\ options' = opts
    /\ ret' = EnteredAt(BundleAnalyze(preset, opts, cursor), cursor)
    /\ cursor' = BundleFindings(preset, opts, cursor).cursor
    /\ asked' = <<>>
    /\ UNCHANGED <<preset, scoreInput, scoreOutput, host>>

BundleItems ==
    {OrderRecord("main", TRUE), OrderRecord("chatHistory", TRUE),
     OrderRecord("scenario", TRUE)}

BundleOrders ==
    {Arr(o) : o \in SeqsUpTo(BundleItems, MaxOrderBundle)}
        \cup {Arr(<<Wrapper(Arr(<<OrderRecord("scenario", TRUE), OrderRecord("main", FALSE),
                                  OrderRecord("main", TRUE)>>))>>)}

BundlePresets ==
    {PresetObject(Arr(t), o, sq) :
        t \in FullTables, o \in BundleOrders, sq \in {"absent", "true"}}
        \cup {Null, PresetObject(Absent, Arr(<<>>), "absent")}

\* 900 and 1000 tokens lie on either side of nine tenths of 1024
BundleOptions ==
    {[provider |-> pr, tokenizer |-> tk] :
        pr \in {NoProvider, "anthropic", "openai", "google"},
        tk \in {NoTokenizer, FixedTokenizer(900), FixedTokenizer(1000)}}

InitBundle == \E p \in BundlePresets : Fresh(p)

NextBundle ==
    \/ \E opts \in BundleOptions : CallBundleAnalyze(opts)
    \/ Forget

SpecBundle == InitBundle /\ [][NextBundle]_vars

\* C24: the bundle and the separate modules hold the same logic: for every
\* preset and every options value (provider, tokenizer), analyze of the bundle
\* returns the same findings (ids, rules, severities, affected entries, meta,
\* in the same order), the same score and the same summary as analyze of the
\* CommonJS analyzer
C24_BundleEquivalent ==
    call = "bundle.analyze" => ret.result = analyze(preset, options)

\* C24 witness: the bundle's analyze, entered with its matcher past a match
\* of an earlier call, returns findings of three rules or more under google
C24_Witness ==
    /\ call = "bundle.analyze"
    /\ options.provider = "google"
    /\ ret.entered > 0
    /\ {"macro-placement", "token-thresholds", "provider-specific"} \subseteq
           {ret.result.findings[k].rule : k \in 1..Len(ret.result.findings)}
    /\ ret.result.score < 100

-----------------------------------------------------------------------------
(* Specification SpecEstimate: the two token rules under provider google *)

\* tokenizer answers around 0, 0.9 of the google threshold and the threshold
EstimateCounts ==
    Near(0) \cup Near((9 * THRESHOLD_GOOGLE) \div 10) \cup Near(THRESHOLD_GOOGLE)

EstimateOptions ==
    {[provider |-> "google", tokenizer |-> tk] :
        tk \in {NoTokenizer} \cup {FixedTokenizer(n) : n \in EstimateCounts}}

\* the presets of SpecTokens, and a preset the guard of both rules rejects
EstimatePresets == TokensPresets \cup {Null}

InitEstimate == \E p \in EstimatePresets : Fresh(p)

NextEstimate ==
    \/ \E opts \in EstimateOptions :
          \/ CallCheckTokenThresholds(opts)
          \/ CallCheckProviderSpecific(opts)
          \/ CallAnalyze(opts)
    \/ Forget

SpecEstimate == InitEstimate /\ [][NextEstimate]_vars

\* a token-thresholds finding list and a provider-specific one agree: both
\* empty or both one finding, with the same estimate and the same deficit
SameShortfall(thresholds, specific) ==
    /\ (thresholds = <<>>) = (specific = <<>>)
    /\ thresholds # <<>> =>
          /\ Len(thresholds) = 1
          /\ Len(specific) = 1
          /\ thresholds[1].rule = "token-thresholds"
          /\ specific[1].rule = "provider-specific"
          /\ thresholds[1].meta.estimatedTokens = specific[1].meta.estimatedTokens
          /\ thresholds[1].meta.deficit = Num(specific[1].meta.deficit)

\* the findings of one rule in a merged list
OfRule(findings, rule) == SelectSeq(findings, LAMBDA f : f.rule = rule)

\* C25: under provider google, checkTokenThresholds hands the tokenizer the
\* text getStablePrefixTokens hands it on the same preset, and emits a finding
\* exactly when checkProviderSpecific does, with the same estimatedTokens and
\* the same deficit; the converse holds from checkProviderSpecific; and analyze
\* on a prefix estimated below 4096 asks for the same text twice, returns one
\* finding of each rule and a score of at most 87
C25_SameEstimate ==
    /\ call = "checkTokenThresholds" =>
          /\ ret.outcome = "ok"
          /\ asked = ProviderAsked(preset, options)
          /\ SameShortfall(ret.findings, checkProviderSpecific(preset, options).value)
    /\ call = "checkProviderSpecific" =>
          /\ ret.outcome = "ok"
          /\ asked = ThresholdsAsked(preset, options)
          /\ SameShortfall(checkTokenThresholds(preset, options).value, ret.findings)
    /\ (call = "analyze" /\ asked # <<>>) =>
          /\ ret.outcome = "ok"
          /\ Len(asked) = 2
          /\ asked[1] = asked[2]
          /\ SameShortfall(OfRule(ret.findings, "token-thresholds"),
                           OfRule(ret.findings, "provider-specific"))
          /\ EstimateOfCall < THRESHOLD_GOOGLE =>
                /\ Len(OfRule(ret.findings, "token-thresholds")) = 1
                /\ Len(OfRule(ret.findings, "provider-specific")) = 1
                /\ ret.score <= 87

\* analyze under google with the default tokenizer on a preset whose order
\* holds a stable entry and the volatile chatHistory, both with content: the
\* prefix is the stable entry alone, and both rules report it
C25_Witness ==
    /\ call = "analyze"
    /\ options = [provider |-> "google", tokenizer |-> NoTokenizer]
    /\ ret.outcome = "ok"
    /\ preset # Null
    /\ preset.prompts = Arr(TokensTableA)
    /\ asked = <<TextPlain, TextPlain>>
    /\ Len(OfRule(ret.findings, "token-thresholds")) = 1
    /\ Len(OfRule(ret.findings, "provider-specific")) = 1
    /\ OfRule(ret.findings, "provider-specific")[1].meta.deficit
          = THRESHOLD_GOOGLE - CeilQuarter(Len(TextPlain))
    /\ \E k \in 1..Len(EnabledEntries(preset).value) :
          EnabledEntries(preset).value[k].identifier = "chatHistory"

-----------------------------------------------------------------------------
(* Specification SpecRender: the findings list of the panel *)

\* longest finding list handed to renderFindingsList
MaxCards == 3

\* const order = { critical: 0, warning: 1, info: 2 }; order[severity], or
\* <<>> for undefined
OrderOf(severity) ==
    IF severity = "critical" THEN <<0>>
    ELSE IF severity = "warning" THEN <<1>>
    ELSE IF severity = "info" THEN <<2>>
    ELSE <<>>

\* order[f.severity] || 3: undefined and 0 are both falsy
SortKey(f) ==
    IF OrderOf(f.severity) = <<>> \/ OrderOf(f.severity) = <<0>> THEN 3
    ELSE OrderOf(f.severity)[1]

\* the comparator (a, b) => (order[a.severity] || 3) - (order[b.severity] || 3)
Compare(a, b) == SortKey(a) - SortKey(b)

RECURSIVE InsertSorted(_, _)
\* f put behind every card that does not compare greater than it
InsertSorted(sorted, f) ==
    IF sorted = <<>> THEN <<f>>
    ELSE IF Compare(Head(sorted), f) <= 0
         THEN <<Head(sorted)>> \o InsertSorted(Tail(sorted), f)
         ELSE <<f>> \o sorted

RECURSIVE SortInto(_, _)
\* [...findings].sort(comparator): Array.prototype.sort is stable
SortInto(sorted, findings) ==
    IF findings = <<>> THEN sorted
    ELSE SortInto(InsertSorted(sorted, Head(findings)), Tail(findings))

\* renderFindingsList(findings): the "No issues found" block for an empty
\* list (analyze always returns an array), else one card per finding in
\* sorted order
renderFindingsList(findings) ==
    IF findings = <<>>
    THEN [list |-> "no-issues", cards |-> <<>>]
    ELSE [list |-> "cards", cards |-> SortInto(<<>>, findings)]

\* findings of the three severities, two of each so that ties are visible
CardFindings ==
    {[id |-> i, severity |-> sev] :
        i \in {"a", "b"}, sev \in {"critical", "warning", "info"}}

CardLists == SeqsUpTo(CardFindings, MaxCards)

RenderFindingsList(findings) ==
    /\ call = "none"
    /\ call' = "renderFindingsList"
    /\ ret' = [outcome  |-> "ok",
               findings |-> findings,
               rendered |-> renderFindingsList(findings)]
    /\ UNCHANGED <<preset, options, scoreInput, scoreOutput, asked, cursor, host>>

InitRender == Fresh(NoPreset)

NextRender ==
    \/ \E findings \in CardLists : RenderFindingsList(findings)
    \/ Forget

SpecRender == InitRender /\ [][NextRender]_vars

\* the findings of one severity, in the order given
OfSeverity(findings, sev) == SelectSeq(findings, LAMBDA f : f.severity = sev)

\* C26: the cards renderFindingsList displays are the findings sorted critical
\* first, then warning, then info, the given order kept within a severity
C26_CriticalFirst ==
    (call = "renderFindingsList" /\ ret.rendered.list = "cards") =>
        ret.rendered.cards = OfSeverity(ret.findings, "critical")
                                \o OfSeverity(ret.findings, "warning")
                                \o OfSeverity(ret.findings, "info")

-----------------------------------------------------------------------------
(* Prompt ordering over SpecRules: the reported entries as a set *)

\* the positions of the enabled records that are stable
StablePositions(p) ==
    {j \in 0..(EnabledCount(OrderRecords(p)) - 1) : ~VolatileAt(p, j)}

\* the volatile positions located before the second-to-last stable entry,
\* the stable position with exactly one stable position after it
VolatileBeforeSecondToLastStable(p) ==
    {i \in 0..(EnabledCount(OrderRecords(p)) - 1) :
        /\ VolatileAt(p, i)
        /\ \E s \in StablePositions(p) :
              /\ Cardinality(StablePositionsAfter(p, s)) = 1
              /\ i < s}

\* some finding reports position pos
ReportedAt(findings, pos) ==
    \E k \in 1..Len(findings) : findings[k].meta.volatilePosition = pos

\* C29: the prompt-ordering findings are downward closed over the volatile
\* entries: every finding reports a volatile entry, every volatile entry at a
\* position before a reported one is reported too, the findings come in
\* increasing position with meta.stableEntriesAfter never increasing, and
\* their number is the number of volatile entries located before the
\* second-to-last stable entry
C29_DownwardClosed ==
    (call = "checkPromptOrdering" /\ ret.outcome = "ok") =>
        /\ \A k \in 1..Len(ret.findings) :
              /\ VolatileAt(preset, ret.findings[k].meta.volatilePosition)
              /\ \A j \in 0..(ret.findings[k].meta.volatilePosition - 1) :
                    VolatileAt(preset, j) => ReportedAt(ret.findings, j)
        /\ \A k \in 1..(Len(ret.findings) - 1) :
              /\ ret.findings[k].meta.volatilePosition
                    < ret.findings[k + 1].meta.volatilePosition
              /\ ret.findings[k].meta.stableEntriesAfter
                    >= ret.findings[k + 1].meta.stableEntriesAfter
        /\ Len(ret.findings) = Cardinality(VolatileBeforeSecondToLastStable(preset))

\* chatHistory, main, chatHistory, main, scenario with main and scenario
\* stable: both chatHistory records are reported, with 3 and then 2 stable
\* entries after them
C29_Witness ==
    /\ call = "checkPromptOrdering"
    /\ ret.outcome = "ok"
    /\ Len(ret.findings) = 2
    /\ ret.findings[1].meta.volatilePosition = 0
    /\ ret.findings[1].meta.stableEntriesAfter = 3
    /\ ret.findings[2].meta.volatilePosition = 2
    /\ ret.findings[2].meta.stableEntriesAfter = 2

====
